---- MODULE Spec2Model ----
(***************************************************************************)
(* Procedural dungeon generator (DungeonGenerator + SeededRandom), the     *)
(* room shape catalog and the RoomManager collision index.                 *)
(*                                                                         *)
(* Numbers.  Lengths are fixed-point: TILE_SIZE units make one tile, so    *)
(* every length the catalog uses (0.15/2, 0.225/2, 0.01, ...) is an        *)
(* integer.  A 32-bit word is the pair <<hi, lo>> of its 16-bit halves,    *)
(* so that no intermediate value leaves the range of TLC's integers.    *)
(* A probability p is the integer p * 65536 (0 .. 65536).                  *)
(* Room ids `room_<n>` are the numbers n.                                  *)
(***************************************************************************)
EXTENDS Integers, Sequences, FiniteSets, TLC

(***************************************************************************)
(* Evaluation                                                              *)
(***************************************************************************)
\* F(e), with e evaluated once however often F uses its argument
Let(e, F(_)) == CHOOSE r \in { F(v) : v \in {e} } : TRUE

(***************************************************************************)
(* 32-bit words                                                            *)
(***************************************************************************)
W16 == 65536

Pow2(n) == 2 ^ n

RECURSIVE XorN(_, _, _)
XorN(x, y, n) ==
    IF n = 0 THEN 0
    ELSE (((x % 2) + (y % 2)) % 2) + 2 * XorN(x \div 2, y \div 2, n - 1)

RECURSIVE OrN(_, _, _)
OrN(x, y, n) ==
    IF n = 0 THEN 0
    ELSE (IF (x % 2) = 1 \/ (y % 2) = 1 THEN 1 ELSE 0) + 2 * OrN(x \div 2, y \div 2, n - 1)

\* x ^ y for 4-bit x and y, tabulated
Xor4 == [x \in 0 .. 15 |-> [y \in 0 .. 15 |-> XorN(x, y, 4)]]

\* x ^ y for 16-bit x and y, four bits at a time
Xor16(x, y) ==
    Xor4[x % 16][y % 16]
    + 16 * Xor4[(x \div 16) % 16][(y \div 16) % 16]
    + 256 * Xor4[(x \div 256) % 16][(y \div 256) % 16]
    + 4096 * Xor4[x \div 4096][y \div 4096]

\* a ^ b on 32-bit words
Xor32(a, b) == << Xor16(a[1], b[1]), Xor16(a[2], b[2]) >>

\* a | k for a constant k < 64
OrSmall(a, k) == << a[1], (a[2] - (a[2] % 64)) + OrN(a[2] % 64, k, 6) >>

\* a >>> k for 0 < k < 16
Shr32(a, k) ==
    << a[1] \div Pow2(k), (a[2] \div Pow2(k)) + (a[1] % Pow2(k)) * Pow2(16 - k) >>

\* (a + b) mod 2^32
Add32(a, b) ==
    << (a[1] + b[1] + ((a[2] + b[2]) \div W16)) % W16, (a[2] + b[2]) % W16 >>

\* the full 32-bit product of two 16-bit numbers, as a word
Mul16(x, y) ==
    Let((x \div 256) * y, LAMBDA p1 :
    Let((p1 % 256) * 256 + (x % 256) * y, LAMBDA lo :
      << ((p1 \div 256) + (lo \div W16)) % W16, lo % W16 >>))

\* Math.imul(a, b): the low 32 bits of the product
Imul32(a, b) ==
    Let(Mul16(a[2], b[2]), LAMBDA low :
      << (low[1] + Mul16(a[1], b[2])[2] + Mul16(a[2], b[1])[2]) % W16, low[2] >>)

\* the seed of a SeededRandom, reduced to the 32 bits the bit operations read
ToWord(n) == << (n \div W16) % W16, n % W16 >>

(***************************************************************************)
(* SeededRandom (Mulberry32).  s is this.seed modulo 2^32.                 *)
(***************************************************************************)
\* 0x6D2B79F5
MulberryIncrement == << 27947, 31221 >>

\* the state after one next(): this.seed += 0x6D2B79F5
RngAdvance(s) == Add32(s, MulberryIncrement)

\* the 32-bit numerator u of next() = u / 4294967296, drawn from state s
NextBits(s) ==
    Let(RngAdvance(s), LAMBDA t0 :
    Let(Xor32(t0, Shr32(t0, 15)), LAMBDA x0 :
    Let(Imul32(x0, OrSmall(t0, 1)), LAMBDA t1 :
    Let(Xor32(t1, Shr32(t1, 7)), LAMBDA x1 :
    Let(Imul32(x1, OrSmall(t1, 61)), LAMBDA m1 :
    Let(Add32(t1, m1), LAMBDA sum :
    Let(Xor32(t1, sum), LAMBDA t2 :
      Xor32(t2, Shr32(t2, 14)))))))))

\* nextInt(min, max) = floor(next() * (max - min)) + min
NextInt(s, min, max) ==
    Let(NextBits(s), LAMBDA u :
      (((u[1] * (max - min)) + ((u[2] * (max - min)) \div W16)) \div W16) + min)

\* a chance with the comparison turned round
ChanceTurnedRound(s, p) == NextBits(s)[1] >= p

\* chance(p) = next() < p, with p given as p * 65536
Chance(s, p) == NextBits(s)[1] < p

\* pick(arr) = arr[nextInt(0, arr.length)]
Pick(s, arr) == arr[NextInt(s, 0, Len(arr)) + 1]

(***************************************************************************)
(* Lengths, directions                                                     *)
(***************************************************************************)
\* n hundredths of a world unit, in fixed point
Fixed(n) == n * 100

\* TILE_SIZE = 1.0, WALL_HEIGHT = 1.0
TILE_SIZE == Fixed(100)

\* an optional value: None, or Some(v)
None == << >>
Some(v) == << v >>

Directions == {"north", "south", "east", "west"}

\* the order in which getAvailableDirections visits the directions
DirectionOrder == << "north", "south", "east", "west" >>

\* a direction table that maps each direction to itself
SameDirection(d) == d

OPPOSITE_DIRECTION(d) ==
    CASE d = "north" -> "south"
      [] d = "south" -> "north"
      [] d = "east"  -> "west"
      [] d = "west"  -> "east"

\* offsets with those of north and south exchanged
OffsetNorthSouthExchanged(d) ==
    CASE d = "north" -> [x |-> 0, z |-> 1]
      [] d = "south" -> [x |-> 0, z |-> -1]
      [] d = "east"  -> [x |-> 1, z |-> 0]
      [] d = "west"  -> [x |-> -1, z |-> 0]

DIRECTION_OFFSET(d) ==
    CASE d = "north" -> [x |-> 0, z |-> -1]
      [] d = "south" -> [x |-> 0, z |-> 1]
      [] d = "east"  -> [x |-> 1, z |-> 0]
      [] d = "west"  -> [x |-> -1, z |-> 0]

RoomTypes == {"basic", "corridor_ns", "corridor_ew", "junction", "dead_end"}

(***************************************************************************)
(* RoomBuilder and the room shape catalog                                  *)
(***************************************************************************)
\* RoomBuilder.createWall: a group at (x, z) holding a collision mesh of
\* size width x depth tagged 'wall'
createWall(x, z, width, depth) ==
    [type |-> "wall", x |-> x, z |-> z, width |-> width, depth |-> depth]

\* RoomBuilder.createFloor: the same with a collision mesh tagged 'floor'
createFloor(x, z, width, depth) ==
    [type |-> "floor", x |-> x, z |-> z, width |-> width, depth |-> depth]

\* RoomBuilder.createRoomGroup: an empty group at the origin, named after
\* the metadata, whose userData is the metadata plus isRoom.  userData is a
\* record holding the fields that are set; connections maps the sides that
\* have a connection point to that point (a side the source maps to null is
\* outside its domain).
createRoomGroup(name, width, depth, theme, difficulty, connections) ==
    [name     |-> name,
     userData |-> [name        |-> name,
                   dimensions  |-> [width |-> width, depth |-> depth, height |-> 1],
                   theme       |-> theme,
                   difficulty  |-> difficulty,
                   connections |-> connections,
                   isRoom      |-> TRUE],
     children |-> << >>,
     position |-> [x |-> 0, z |-> 0]]

\* a connection point of a shape: its position in the room
Point(x, z) == [x |-> x, z |-> z]

WithChildren(group, volumes) == [group EXCEPT !.children = volumes]

createBasicRoom ==
    LET T  == TILE_SIZE
        wt == Fixed(20)
    IN  WithChildren(
          createRoomGroup("BasicRoom_2x2", 2, 2, "stone_dungeon", "beginner",
            [d \in Directions |->
               CASE d = "north" -> Point(T, 0)
                 [] d = "south" -> Point(T, 2 * T)
                 [] d = "east"  -> Point(2 * T, T)
                 [] d = "west"  -> Point(0, T)]),
          << createFloor(T, T, 2 * T, 2 * T),
             createWall(0, 0, wt, wt),
             createWall(2 * T, 0, wt, wt),
             createWall(0, 2 * T, wt, wt),
             createWall(2 * T, 2 * T, wt, wt),
             createWall(T \div 4, 0, T \div 2, wt),
             createWall((7 * T) \div 4, 0, T \div 2, wt),
             createWall(T \div 4, 2 * T, T \div 2, wt),
             createWall((7 * T) \div 4, 2 * T, T \div 2, wt),
             createWall(0, T \div 4, wt, T \div 2),
             createWall(0, (7 * T) \div 4, wt, T \div 2),
             createWall(2 * T, T \div 4, wt, T \div 2),
             createWall(2 * T, (7 * T) \div 4, wt, T \div 2) >>)

createCorridorNS ==
    LET T  == TILE_SIZE
        wt == Fixed(15)
    IN  WithChildren(
          createRoomGroup("Corridor_NS", 1, 3, "stone_dungeon", "beginner",
            [d \in {"north", "south"} |->
               CASE d = "north" -> Point(T \div 2, 0)
                 [] d = "south" -> Point(T \div 2, 3 * T)]),
          << createFloor(T \div 2, (3 * T) \div 2, T, 3 * T),
             createWall(0, (3 * T) \div 2, wt, 3 * T),
             createWall(T, (3 * T) \div 2, wt, 3 * T) >>)

createCorridorEW ==
    LET T  == TILE_SIZE
        wt == Fixed(15)
    IN  WithChildren(
          createRoomGroup("Corridor_EW", 3, 1, "stone_dungeon", "beginner",
            [d \in {"east", "west"} |->
               CASE d = "east" -> Point(3 * T, T \div 2)
                 [] d = "west" -> Point(0, T \div 2)]),
          << createFloor((3 * T) \div 2, T \div 2, 3 * T, T),
             createWall((3 * T) \div 2, 0, 3 * T, wt),
             createWall((3 * T) \div 2, T, 3 * T, wt) >>)

createJunctionRoom ==
    LET T  == TILE_SIZE
        wt == Fixed(15)
        c  == (3 * T) \div 2
    IN  WithChildren(
          createRoomGroup("Junction_3x3", 3, 3, "stone_dungeon", "normal",
            [d \in Directions |->
               CASE d = "north" -> Point(c, 0)
                 [] d = "south" -> Point(c, 3 * T)
                 [] d = "east"  -> Point(3 * T, c)
                 [] d = "west"  -> Point(0, c)]),
          << createFloor(c, c, 3 * T, 3 * T),
             createWall(T \div 2, 0, T, wt),
             createWall((5 * T) \div 2, 0, T, wt),
             createWall(T \div 2, 3 * T, T, wt),
             createWall((5 * T) \div 2, 3 * T, T, wt),
             createWall(0, T \div 2, wt, T),
             createWall(0, (5 * T) \div 2, wt, T),
             createWall(3 * T, T \div 2, wt, T),
             createWall(3 * T, (5 * T) \div 2, wt, T),
             createWall(0, 0, wt * 2, wt * 2),
             createWall(3 * T, 0, wt * 2, wt * 2),
             createWall(0, 3 * T, wt * 2, wt * 2),
             createWall(3 * T, 3 * T, wt * 2, wt * 2),
             createWall(c, c, Fixed(30), Fixed(30)) >>)

\* one side of a dead-end room: two segments around the door on the
\* entrance side, one full wall elsewhere
\* a side walled in full whether the entrance is there or not
DeadEndSideClosed(side, entrance) ==
    LET T  == TILE_SIZE
        wt == Fixed(15)
    IN  IF side \in {"north", "south"}
          THEN << createWall(T, IF side = "south" THEN 2 * T ELSE 0, 2 * T, wt) >>
          ELSE << createWall(IF side = "east" THEN 2 * T ELSE 0, T, wt, 2 * T) >>

DeadEndSide(side, entrance) ==
    LET T  == TILE_SIZE
        wt == Fixed(15)
        \* the coordinate of the wall line, and whether it runs along x
        line   == IF side \in {"south", "east"} THEN 2 * T ELSE 0
        alongX == side \in {"north", "south"}
        seg(at, len) == IF alongX THEN createWall(at, line, len, wt)
                                  ELSE createWall(line, at, wt, len)
    IN  IF entrance = side
          THEN << seg(T \div 4, T \div 2), seg((7 * T) \div 4, T \div 2) >>
          ELSE << seg(T, 2 * T) >>

createDeadEndRoom(entrance, variant) ==
    LET T  == TILE_SIZE
        wt == Fixed(15)
        cp == (wt * 3) \div 2
        g  == createRoomGroup("DeadEnd_" \o entrance \o "_" \o variant, 2, 2, "stone_dungeon",
                IF variant = "treasure" THEN "reward" ELSE "normal",
                [d \in {entrance} |->
                   CASE d = "north" -> Point(T, 0)
                     [] d = "south" -> Point(T, 2 * T)
                     [] d = "east"  -> Point(2 * T, T)
                     [] d = "west"  -> Point(0, T)])
        built == WithChildren(g,
            << createFloor(T, T, 2 * T, 2 * T) >>
            \o DeadEndSide("north", entrance)
            \o DeadEndSide("south", entrance)
            \o DeadEndSide("west", entrance)
            \o DeadEndSide("east", entrance)
            \o << createWall(0, 0, cp, cp),
                  createWall(2 * T, 0, cp, cp),
                  createWall(0, 2 * T, cp, cp),
                  createWall(2 * T, 2 * T, cp, cp) >>)
    IN  CASE variant = "treasure" ->
               [built EXCEPT !.userData =
                  [spawnPoint |-> [x |-> T, y |-> Fixed(40), z |-> T],
                   roomType   |-> "treasure"] @@ @]
          [] variant = "shrine" ->
               [built EXCEPT !.userData = [roomType |-> "shrine"] @@ @]
          [] OTHER -> built

(***************************************************************************)
(* A shape constructor called with a materials argument                    *)
(***************************************************************************)
\* a material that was not given
Undefined == "undefined"

\* new THREE.Mesh(geometry, material): the mesh takes the material it is
\* given, and a MeshBasicMaterial of its own when it is given none
Mesh(material) == IF material = Undefined THEN "MeshBasicMaterial" ELSE material

\* the material createFloor and createWall are passed for a volume
MaterialFor(materials, volume) ==
    IF volume.type = "floor" THEN materials.floor ELSE materials.wall

\* the group a shape constructor returns, with the material of the visual
\* mesh of each of its volumes
WithMeshes(group, materials) ==
    [name |-> group.name, userData |-> group.userData, position |-> group.position,
     children |-> [k \in 1 .. Len(group.children) |->
                     [type     |-> group.children[k].type,
                      x        |-> group.children[k].x,
                      z        |-> group.children[k].z,
                      width    |-> group.children[k].width,
                      depth    |-> group.children[k].depth,
                      material |-> Mesh(MaterialFor(materials, group.children[k]))]]]

\* the outcome of a shape constructor: reading materials.floor of a missing
\* materials argument throws; otherwise the group is returned
ShapeCall(group, materials) ==
    IF materials = None
      THEN [threw |-> TRUE, group |-> None]
      ELSE [threw |-> FALSE, group |-> Some(WithMeshes(group, materials[1]))]

(***************************************************************************)
(* Bounds of the model and the inputs it enumerates                        *)
(***************************************************************************)
\* the largest maxRooms a configuration is given
MaxTarget == 8

\* maxRooms - minRooms is at most this
MaxSpread == 1

\* generate() is called at most this often on one generator
MaxCalls == 2

\* buildAllRooms is called at most this often in all
MaxBuilds == 1

\* the probability n / d, as a multiple of 1 / 65536
Probability(n, d) == (n * W16) \div d

\* probabilities 0, 0.5 and 1
Never == Probability(0, 1)
Half == Probability(1, 2)
Always == Probability(1, 1)
Chances == {Never, Half, Always}

\* the shrine chances given
ShrineChances == {Never, Always}

\* the seeds given to the constructor
Seeds == {12345}

\* the values Math.floor(Math.random() * 999999) takes in the model
RandomSeeds == {7, 99}

\* the constructor's argument: seed is None when omitted; the other fields
\* are given
ConfigArgs ==
    { a \in [seed : {None} \cup {Some(n) : n \in Seeds},
             minRooms : 1 .. MaxTarget, maxRooms : 1 .. MaxTarget,
             treasureRoomChance : Chances, shrineRoomChance : ShrineChances,
             branchingFactor : Chances] :
        /\ a.minRooms <= a.maxRooms
        /\ a.maxRooms <= a.minRooms + MaxSpread }

(***************************************************************************)
(* DungeonGenerator: private helpers.  g is one generator object: its      *)
(* fields config, rng, grid, rooms, roomIdCounter, treasureRoomCount,      *)
(* shrineRoomCount, and the activation of generate() (pc, targetRoomCount, *)
(* frontier, cursor).  rooms is the room map in insertion order, grid maps *)
(* a cell <<x, z>> to its GridCell, a connection map is the sequence of    *)
(* its entries in insertion order.                                         *)
(***************************************************************************)
\* a constructor that drops the seed it is given
SeedIgnoringGiven(given, random) == random

\* config.seed ?? Math.floor(Math.random() * 999999)
SeedOrDefault(given, random) == IF given = None THEN random ELSE given[1]

\* the constructor
NewGenerator(args, random) ==
    LET seed == SeedOrDefault(args.seed, random)
    IN  [config |-> [seed |-> seed,
                     minRooms |-> args.minRooms,
                     maxRooms |-> args.maxRooms,
                     treasureRoomChance |-> args.treasureRoomChance,
                     shrineRoomChance |-> args.shrineRoomChance,
                     branchingFactor |-> args.branchingFactor],
         rng |-> ToWord(seed),
         grid |-> << >>,
         rooms |-> << >>,
         roomIdCounter |-> 0,
         treasureRoomCount |-> 0,
         shrineRoomCount |-> 0,
         pc |-> "idle",
         targetRoomCount |-> 0,
         frontier |-> << >>,
         cursor |-> 0]

\* an occupancy test that never finds a cell taken
NeverOccupied(g, gridX, gridZ) == FALSE

isOccupied(g, gridX, gridZ) ==
    /\ << gridX, gridZ >> \in DOMAIN g.grid
    /\ g.grid[<< gridX, gridZ >>].occupied

markOccupied(g, gridX, gridZ, roomId) ==
    [g EXCEPT !.grid = (<< gridX, gridZ >> :> [roomId |-> roomId, occupied |-> TRUE]) @@ @]

\* Map.has / Map.get / Map.set on a connection map
ConnHas(conns, dir) == \E k \in 1 .. Len(conns) : conns[k].dir = dir

ConnGet(conns, dir) == conns[CHOOSE k \in 1 .. Len(conns) : conns[k].dir = dir].target

ConnSet(conns, dir, target) ==
    IF ConnHas(conns, dir)
      THEN [k \in 1 .. Len(conns) |->
              IF conns[k].dir = dir THEN [dir |-> dir, target |-> target] ELSE conns[k]]
      ELSE Append(conns, [dir |-> dir, target |-> target])

\* Map.has / index / Map.set on the room map
HasRoom(rooms, id) == \E k \in 1 .. Len(rooms) : rooms[k].id = id

RoomIndex(rooms, id) == CHOOSE k \in 1 .. Len(rooms) : rooms[k].id = id

RoomById(rooms, id) == rooms[RoomIndex(rooms, id)]

RoomsSet(rooms, room) ==
    IF HasRoom(rooms, room.id)
      THEN [rooms EXCEPT ![RoomIndex(rooms, room.id)] = room]
      ELSE Append(rooms, room)

\* DungeonGenerator.createRoomGroup: the shape for the room's type, placed
\* at the room's world position and tagged with its id and grid cell
BuildGroup(room, variant) ==
    Let(CASE room.type = "junction"    -> createJunctionRoom
          [] room.type = "corridor_ns" -> createCorridorNS
          [] room.type = "corridor_ew" -> createCorridorEW
          [] room.type = "dead_end"    ->
               createDeadEndRoom(
                 IF Len(room.connections) > 0 THEN room.connections[1].dir ELSE "south",
                 IF variant = None THEN "empty" ELSE variant[1])
          [] OTHER                     -> createBasicRoom,
        LAMBDA shape :
          [shape EXCEPT !.position = [x |-> room.worldX, z |-> room.worldZ],
                        !.userData = [roomId |-> room.id, gridX |-> room.gridX,
                                      gridZ |-> room.gridZ] @@ @])

\* a RoomPlacement spaced by two tiles
NewRoomTwoTilesApart(id, gridX, gridZ, type) ==
    [id |-> id, type |-> type, gridX |-> gridX, gridZ |-> gridZ,
     worldX |-> gridX * 2 * TILE_SIZE,
     worldZ |-> gridZ * 2 * TILE_SIZE,
     connections |-> << >>, group |-> None]

\* the RoomPlacement placeRoom creates
NewRoom(id, gridX, gridZ, type) ==
    [id |-> id, type |-> type, gridX |-> gridX, gridZ |-> gridZ,
     worldX |-> gridX * 3 * TILE_SIZE,
     worldZ |-> gridZ * 3 * TILE_SIZE,
     connections |-> << >>, group |-> None]

\* placeRoom: [g, room], room = None when the cell is occupied, else the id
\* of the room inserted
placeRoom(g, gridX, gridZ, type) ==
    IF isOccupied(g, gridX, gridZ) THEN [g |-> g, room |-> None]
    ELSE [g |-> markOccupied(
                  [g EXCEPT !.roomIdCounter = @ + 1,
                            !.rooms = RoomsSet(@, NewRoom(g.roomIdCounter, gridX, gridZ, type))],
                  gridX, gridZ, g.roomIdCounter),
          room |-> Some(g.roomIdCounter)]

\* a list of directions that leaves the occupancy of the neighbour out
getAvailableDirectionsUnconnected(g, room) ==
    SelectSeq(DirectionOrder, LAMBDA dir : ~ConnHas(room.connections, dir))

getAvailableDirections(g, room) ==
    SelectSeq(DirectionOrder,
      LAMBDA dir :
        /\ ~ConnHas(room.connections, dir)
        /\ ~isOccupied(g, room.gridX + DIRECTION_OFFSET(dir).x,
                          room.gridZ + DIRECTION_OFFSET(dir).z))

\* a choice of room type with junction among the types picked from
ChooseRoomTypeJunctionInPool(s, roomCount, branchingFactor) ==
    IF roomCount < 3
      THEN [type |-> IF Chance(s, Half) THEN "corridor_ns" ELSE "basic",
            rng  |-> RngAdvance(s)]
    ELSE IF Chance(s, branchingFactor)
      THEN [type |-> "junction", rng |-> RngAdvance(s)]
    ELSE [type |-> Pick(RngAdvance(s), << "basic", "corridor_ns", "corridor_ew", "junction" >>),
          rng  |-> RngAdvance(RngAdvance(s))]

\* a choice of room type that rolls for a junction from the first room on
ChooseRoomTypeRollingEarly(s, roomCount, branchingFactor) ==
    IF Chance(s, branchingFactor)
      THEN [type |-> "junction", rng |-> RngAdvance(s)]
    ELSE [type |-> Pick(RngAdvance(s), << "basic", "corridor_ns", "corridor_ew" >>),
          rng  |-> RngAdvance(RngAdvance(s))]

\* the room type expandFrom chooses and the PRNG state after its draws
\* (s is the state after the direction was picked)
ChooseRoomType(s, roomCount, branchingFactor) ==
    IF roomCount < 3
      THEN [type |-> IF Chance(s, Half) THEN "corridor_ns" ELSE "basic",
            rng  |-> RngAdvance(s)]
    ELSE IF Chance(s, branchingFactor)
      THEN [type |-> "junction", rng |-> RngAdvance(s)]
    ELSE [type |-> Pick(RngAdvance(s), << "basic", "corridor_ns", "corridor_ew" >>),
          rng  |-> RngAdvance(RngAdvance(s))]

\* the link expandFrom makes between room and newRoom in direction dir
LinkRooms(rooms, roomId, dir, newId) ==
    [rooms EXCEPT ![RoomIndex(rooms, roomId)].connections = ConnSet(@, dir, newId),
                  ![RoomIndex(rooms, newId)].connections =
                      ConnSet(@, OPPOSITE_DIRECTION(dir), roomId)]

\* an expansion that hands back the room it was given and places nothing
expandFromReturningRoom(g, roomId) == [g |-> g, room |-> Some(roomId)]

\* expandFrom: [g, room], room = None when nothing was placed
expandFrom(g, roomId) ==
    Let(RoomById(g.rooms, roomId), LAMBDA room :
    Let(getAvailableDirections(g, room), LAMBDA available :
      IF Len(available) = 0 THEN [g |-> g, room |-> None]
      ELSE
        Let(Pick(g.rng, available), LAMBDA dir :
        Let(ChooseRoomType(RngAdvance(g.rng), Len(g.rooms), g.config.branchingFactor),
            LAMBDA choice :
        Let(placeRoom([g EXCEPT !.rng = choice.rng],
                      room.gridX + DIRECTION_OFFSET(dir).x,
                      room.gridZ + DIRECTION_OFFSET(dir).z,
                      choice.type),
            LAMBDA placed :
          IF placed.room = None THEN placed
          ELSE
            Let(LinkRooms(placed.g.rooms, roomId, dir, placed.room[1]), LAMBDA linked :
            Let(RoomIndex(linked, placed.room[1]), LAMBDA k :
              [g    |-> [placed.g EXCEPT !.rooms =
                           [linked EXCEPT ![k].group = Some(BuildGroup(linked[k], None))]],
               room |-> placed.room])))))))

\* a removal that takes the last of the frontier whatever room was picked
RemoveLast(seq, v) == SubSeq(seq, 1, Len(seq) - 1)

\* Array.indexOf and splice(idx, 1) on the frontier
RemoveFirst(seq, v) ==
    IF \E k \in 1 .. Len(seq) : seq[k] = v
      THEN Let(CHOOSE k \in 1 .. Len(seq) : seq[k] = v /\ \A j \in 1 .. (k - 1) : seq[j] # v,
               LAMBDA idx : SubSeq(seq, 1, idx - 1) \o SubSeq(seq, idx + 1, Len(seq)))
      ELSE seq

\* the number of entries of a connection map whose value is not null
\* (no entry is ever set to null)
ConnectionCount(room) == Len(room.connections)

\* a dead end as addSpecialRooms sees it
IsDeadEnd(room) == ConnectionCount(room) = 1 /\ room.type # "junction"

\* a treasure roll with no cap
TreasureUncapped(g) == TRUE

\* the caps of addSpecialRooms
TreasureAllowed(g) == g.treasureRoomCount < 2

ShrineAllowed(g) == g.shrineRoomCount < 1

\* the room at position k made a dead_end of the given variant
\* a reclassification that keeps the geometry the room had
ReclassifyKeepingGroup(g, k, variant) == [g EXCEPT !.rooms[k].type = "dead_end"]

Reclassify(g, k, variant) ==
    [g EXCEPT !.rooms[k].type = "dead_end",
              !.rooms[k].group =
                 Some(BuildGroup([g.rooms[k] EXCEPT !.type = "dead_end"], Some(variant)))]

\* a pass that rolls for the shrine before it rolls for the treasure
SpecialRoomStepShrineFirst(g, k) ==
    IF ~IsDeadEnd(g.rooms[k]) THEN g
    ELSE IF Chance(g.rng, g.config.shrineRoomChance) /\ ShrineAllowed(g)
      THEN [Reclassify(g, k, "shrine") EXCEPT !.rng = RngAdvance(@),
                                              !.shrineRoomCount = @ + 1]
    ELSE IF Chance(RngAdvance(g.rng), g.config.treasureRoomChance) /\ TreasureAllowed(g)
      THEN [Reclassify(g, k, "treasure") EXCEPT !.rng = RngAdvance(RngAdvance(@)),
                                                !.treasureRoomCount = @ + 1]
    ELSE [g EXCEPT !.rng = RngAdvance(RngAdvance(@))]

\* the body of the loop of addSpecialRooms for the room at position k
SpecialRoomStep(g, k) ==
    IF ~IsDeadEnd(g.rooms[k]) THEN g
    ELSE IF Chance(g.rng, g.config.treasureRoomChance) /\ TreasureAllowed(g)
      THEN [Reclassify(g, k, "treasure") EXCEPT !.rng = RngAdvance(@),
                                                !.treasureRoomCount = @ + 1]
    ELSE IF Chance(RngAdvance(g.rng), g.config.shrineRoomChance) /\ ShrineAllowed(g)
      THEN [Reclassify(g, k, "shrine") EXCEPT !.rng = RngAdvance(RngAdvance(@)),
                                              !.shrineRoomCount = @ + 1]
    ELSE [g EXCEPT !.rng = RngAdvance(RngAdvance(@))]

\* a buildRoom that finds no room under any id
buildRoomFindingNone(g, roomId) == [g |-> g, group |-> None]

\* buildRoom: [g, group], group = None for an unknown id
buildRoom(g, roomId) ==
    IF ~HasRoom(g.rooms, roomId) THEN [g |-> g, group |-> None]
    ELSE
      Let(RoomIndex(g.rooms, roomId), LAMBDA k :
        IF g.rooms[k].group = None
          THEN Let(BuildGroup(g.rooms[k], None), LAMBDA group :
                 [g |-> [g EXCEPT !.rooms[k].group = Some(group)], group |-> Some(group)])
          ELSE [g |-> g, group |-> g.rooms[k].group])

\* a getSeed that reads the state of the PRNG
getSeedOfRng(g) == g.rng[2]

\* getSeed()
getSeed(g) == g.config.seed

\* |n|
Abs(n) == IF n < 0 THEN 0 - n ELSE n

\* a quotient rounded toward zero
TruncDiv(a, b) == IF a < 0 THEN 0 - ((0 - a) \div b) ELSE a \div b

\* Math.floor(a / b) for b > 0
FloorDiv(a, b) == a \div b

\* getNearbyRooms(worldX, worldZ, gridRadius): the ids in room map order
getNearbyRooms(g, worldX, worldZ, gridRadius) ==
    Let(FloorDiv(worldX, 3 * TILE_SIZE), LAMBDA centerGridX :
    Let(FloorDiv(worldZ, 3 * TILE_SIZE), LAMBDA centerGridZ :
    Let(SelectSeq(g.rooms,
          LAMBDA room : /\ Abs(room.gridX - centerGridX) <= gridRadius
                        /\ Abs(room.gridZ - centerGridZ) <= gridRadius),
        LAMBDA nearby : [k \in 1 .. Len(nearby) |-> nearby[k].id])))

\* a spawn point at the corner the room is positioned by
SpawnAtCorner(room) == [x |-> room.worldX, y |-> Fixed(50), z |-> room.worldZ]

\* a spawn point at the middle of the room
SpawnAtCentre(room) ==
    [x |-> room.worldX + ((3 * TILE_SIZE) \div 2), y |-> Fixed(50),
     z |-> room.worldZ + ((3 * TILE_SIZE) \div 2)]

\* the spawn point buildAllRooms sets when it meets room_0
SpawnPointOf(room) ==
    [x |-> room.worldX + TILE_SIZE, y |-> Fixed(50), z |-> room.worldZ + TILE_SIZE]

(***************************************************************************)
(* RoomManager.  m is the manager object: rooms, collisionBoxes.           *)
(***************************************************************************)
\* Box3.setFromObject(child): the world-space box of the collision mesh of
\* a wall or floor group at (x, z) inside a room group at its position
WorldBox(group, child) ==
    [minX |-> group.position.x + child.x - (child.width \div 2),
     maxX |-> group.position.x + child.x + (child.width \div 2),
     minZ |-> group.position.z + child.z - (child.depth \div 2),
     maxZ |-> group.position.z + child.z + (child.depth \div 2)]

\* a traversal that indexes every collision mesh
AllVolumes(group) == group.children

\* the meshes the traversal of addRoom indexes: every collision mesh (each
\* wall and floor group holds one) except those tagged 'floor'
IndexedVolumes(group) ==
    SelectSeq(group.children, LAMBDA child : child.type # "floor")

\* u.field ?? default
OrDefault(userData, field, default) ==
    IF field \in DOMAIN userData THEN userData[field] ELSE default

\* a RoomData with the defaults of theme and difficulty exchanged
RoomDataDefaultsExchanged(group) ==
    [name        |-> OrDefault(group.userData, "name", group.name),
     dimensions  |-> OrDefault(group.userData, "dimensions",
                               [width |-> 1, depth |-> 1, height |-> 1]),
     connections |-> OrDefault(group.userData, "connections", << >>),
     theme       |-> OrDefault(group.userData, "theme", "normal"),
     difficulty  |-> OrDefault(group.userData, "difficulty", "default"),
     group       |-> group]

\* the RoomData addRoom records
RoomDataOf(group) ==
    [name        |-> OrDefault(group.userData, "name", group.name),
     dimensions  |-> OrDefault(group.userData, "dimensions",
                               [width |-> 1, depth |-> 1, height |-> 1]),
     connections |-> OrDefault(group.userData, "connections", << >>),
     theme       |-> OrDefault(group.userData, "theme", "default"),
     difficulty  |-> OrDefault(group.userData, "difficulty", "normal"),
     group       |-> group]

addRoom(m, group) ==
    Let(IndexedVolumes(group), LAMBDA indexed :
      [rooms |-> Append(m.rooms, RoomDataOf(group)),
       collisionBoxes |->
          m.collisionBoxes \o
          [k \in 1 .. Len(indexed) |->
             [box |-> WorldBox(group, indexed[k]), type |-> indexed[k].type]]])

\* a containment test that leaves the radius out
checkCollisionPoint(boxes, x, z, radius) ==
    \E k \in 1 .. Len(boxes) :
       /\ x >= boxes[k].box.minX
       /\ x <= boxes[k].box.maxX
       /\ z >= boxes[k].box.minZ
       /\ z <= boxes[k].box.maxZ

\* checkCollision(x, z, radius)
checkCollision(boxes, x, z, radius) ==
    \E k \in 1 .. Len(boxes) :
       /\ x >= boxes[k].box.minX - radius
       /\ x <= boxes[k].box.maxX + radius
       /\ z >= boxes[k].box.minZ - radius
       /\ z <= boxes[k].box.maxZ + radius

\* the default radius of checkCollision, 0.2
DefaultRadius == Fixed(20)

\* one scene.add call
SceneAdd(by, group) == [by |-> by, name |-> group.name, position |-> group.position]

\* the loop of buildAllRooms from position k of the room map on; st holds
\* the generator, the manager, the scene.add calls and the spawn point so far
RECURSIVE buildAllRoomsFrom(_, _)
buildAllRoomsFrom(st, k) ==
    IF k > Len(st.g.rooms) THEN st
    ELSE
      Let(buildRoom(st.g, st.g.rooms[k].id), LAMBDA built :
        IF built.group = None
          THEN Let([st EXCEPT !.g = built.g], LAMBDA next : buildAllRoomsFrom(next, k + 1))
          ELSE
            Let([g       |-> built.g,
                 manager |-> addRoom(st.manager, built.group[1]),
                 scene   |-> st.scene \o << SceneAdd("generator", built.group[1]),
                                            SceneAdd("manager", built.group[1]) >>,
                 spawnPoint |-> IF built.g.rooms[k].id = 0
                                  THEN SpawnPointOf(built.g.rooms[k])
                                  ELSE st.spawnPoint],
                LAMBDA next : buildAllRoomsFrom(next, k + 1)))

(***************************************************************************)
(* The program state                                                       *)
(***************************************************************************)
VARIABLES
    gen,            \* the DungeonGenerator objects, by instance name
    args,           \* the argument each was constructed with
    returned,       \* per instance, the room graph each generate() returned
    mgrRooms,       \* RoomManager.rooms
    collisionBoxes, \* RoomManager.collisionBoxes
    sceneAdds,      \* the scene.add calls, in order: who called, which group
    spawnPoint,     \* what the last buildAllRooms returned (None before), and
                    \* how many generate() calls its generator had completed
    builds,         \* the number of buildAllRooms calls
    prng,           \* a SeededRandom object used on its own: its seed field
                    \* (None when there is none)
    lastCall,       \* the last call of another operation a caller made, with
                    \* its arguments, what it returned and how many
                    \* generate() calls had returned then (None before)
    lastCheck       \* the last checkCollision call and its result (None
                    \* before), and how many rooms the manager held then

vars == << gen, args, returned, mgrRooms, collisionBoxes, sceneAdds,
           spawnPoint, builds, prng, lastCall, lastCheck >>

managerVars == << mgrRooms, collisionBoxes, sceneAdds, spawnPoint, builds, prng,
                 lastCall, lastCheck >>

\* the room graph of a room map: per room its id, type, grid cell and
\* direction-to-neighbour map
Graph(rooms) ==
    { [id |-> rooms[k].id, type |-> rooms[k].type,
       gridX |-> rooms[k].gridX, gridZ |-> rooms[k].gridZ,
       connections |-> { << rooms[k].connections[j].dir, rooms[k].connections[j].target >> :
                           j \in 1 .. Len(rooms[k].connections) }] :
      k \in 1 .. Len(rooms) }

\* JavaScript runs one call at a time: no generate() is in progress
Quiet == \A j \in DOMAIN gen : gen[j].pc = "idle"

ManagerInit ==
    /\ mgrRooms = << >>
    /\ collisionBoxes = << >>
    /\ sceneAdds = << >>
    /\ spawnPoint = None
    /\ builds = 0
    /\ prng = None
    /\ lastCall = None
    /\ lastCheck = None

\* the generator of a level
Single == {"A"}

\* one generator and an empty room manager
Init ==
    /\ \E a \in ConfigArgs, r \in RandomSeeds :
         /\ args = [i \in Single |-> a]
         /\ gen = [i \in Single |-> NewGenerator(a, r)]
    /\ returned = [i \in Single |-> << >>]
    /\ ManagerInit

(***************************************************************************)
(* generate()                                                              *)
(***************************************************************************)
\* a reset whose draw of the target reaches past maxRooms
ResetDrawingPastMax(g) ==
    [g EXCEPT !.grid = << >>, !.rooms = << >>, !.roomIdCounter = 0,
              !.treasureRoomCount = 0, !.shrineRoomCount = 0,
              !.targetRoomCount = NextInt(g.rng, g.config.minRooms, g.config.maxRooms + 2),
              !.rng = RngAdvance(@),
              !.frontier = << >>]

\* a reset that leaves the id counter as it is
ResetKeepingIds(g) ==
    [g EXCEPT !.grid = << >>, !.rooms = << >>,
              !.treasureRoomCount = 0, !.shrineRoomCount = 0,
              !.targetRoomCount = NextInt(g.rng, g.config.minRooms, g.config.maxRooms + 1),
              !.rng = RngAdvance(@),
              !.frontier = << >>]

\* lines 320-326: the reset and the draw of the target
ResetAndDraw(g) ==
    [g EXCEPT !.grid = << >>, !.rooms = << >>, !.roomIdCounter = 0,
              !.treasureRoomCount = 0, !.shrineRoomCount = 0,
              !.targetRoomCount = NextInt(g.rng, g.config.minRooms, g.config.maxRooms + 1),
              !.rng = RngAdvance(@),
              !.frontier = << >>]

\* lines 320-338: reset, draw the target, place the spawn room
GenerateBegin(i) ==
    /\ Quiet
    /\ Len(returned[i]) < MaxCalls
    /\ \E g0 \in { ResetAndDraw(gen[i]) } :
       \E placed \in { placeRoom(g0, 0, 0, "junction") } :
         IF placed.room = None
           THEN /\ gen' = [gen EXCEPT ![i] = placed.g]
                /\ returned' = [returned EXCEPT ![i] = Append(@, Graph(placed.g.rooms))]
           ELSE \E k \in { RoomIndex(placed.g.rooms, placed.room[1]) } :
                  /\ gen' = [gen EXCEPT ![i] =
                       [placed.g EXCEPT
                          !.rooms[k].group = Some(BuildGroup(placed.g.rooms[k], None)),
                          !.frontier = << placed.room[1] >>,
                          !.pc = "grow"]]
                  /\ returned' = returned
    /\ UNCHANGED << args, managerVars >>

\* a growth loop that runs one iteration too many
GrowConditionOffByOne(g) == Len(g.rooms) <= g.targetRoomCount /\ Len(g.frontier) > 0

\* the condition of the growth loop
GrowCondition(g) == Len(g.rooms) < g.targetRoomCount /\ Len(g.frontier) > 0

\* an iteration of the growth loop that forgets to push the new room
GrowStepForgettingRoom(i) ==
    /\ gen[i].pc = "grow"
    /\ GrowCondition(gen[i])
    /\ \E currentRoom \in { Pick(gen[i].rng, gen[i].frontier) } :
       \E g1 \in { [gen[i] EXCEPT !.rng = RngAdvance(@)] } :
       \E expanded \in { expandFrom(g1, currentRoom) } :
         gen' = [gen EXCEPT ![i] =
                   IF expanded.room = None
                     THEN [expanded.g EXCEPT !.frontier = RemoveFirst(@, currentRoom)]
                     ELSE expanded.g]
    /\ UNCHANGED << args, returned, managerVars >>

\* lines 340-355: one iteration of the growth loop
GrowStep(i) ==
    /\ gen[i].pc = "grow"
    /\ GrowCondition(gen[i])
    /\ \E currentRoom \in { Pick(gen[i].rng, gen[i].frontier) } :
       \E g1 \in { [gen[i] EXCEPT !.rng = RngAdvance(@)] } :
       \E expanded \in { expandFrom(g1, currentRoom) } :
         gen' = [gen EXCEPT ![i] =
                   IF expanded.room = None
                     THEN [expanded.g EXCEPT !.frontier = RemoveFirst(@, currentRoom)]
                     ELSE [expanded.g EXCEPT !.frontier = Append(@, expanded.room[1])]]
    /\ UNCHANGED << args, returned, managerVars >>

\* the loop ends; addSpecialRooms starts its pass over the room map
GrowDone(i) ==
    /\ gen[i].pc = "grow"
    /\ ~GrowCondition(gen[i])
    /\ gen' = [gen EXCEPT ![i].pc = "special", ![i].cursor = 1]
    /\ UNCHANGED << args, returned, managerVars >>

\* lines 541-556: addSpecialRooms visits the next room
SpecialStep(i) ==
    /\ gen[i].pc = "special"
    /\ gen[i].cursor <= Len(gen[i].rooms)
    /\ \E g1 \in { SpecialRoomStep(gen[i], gen[i].cursor) } :
         gen' = [gen EXCEPT ![i] = [g1 EXCEPT !.cursor = @ + 1]]
    /\ UNCHANGED << args, returned, managerVars >>

\* line 364: generate() returns the room map
GenerateReturn(i) ==
    /\ gen[i].pc = "special"
    /\ gen[i].cursor > Len(gen[i].rooms)
    /\ gen' = [gen EXCEPT ![i].pc = "idle"]
    /\ returned' = [returned EXCEPT ![i] = Append(@, Graph(gen[i].rooms))]
    /\ UNCHANGED << args, managerVars >>

(***************************************************************************)
(* buildAllRooms                                                           *)
(***************************************************************************)
BuildAllRooms(i) ==
    /\ Quiet
    /\ builds < MaxBuilds
    /\ \E st \in { buildAllRoomsFrom(
                     [g |-> gen[i],
                      manager |-> [rooms |-> mgrRooms, collisionBoxes |-> collisionBoxes],
                      scene |-> sceneAdds,
                      spawnPoint |-> [x |-> 0, y |-> Fixed(50), z |-> 0]],
                     1) } :
         /\ gen' = [gen EXCEPT ![i] = st.g]
         /\ mgrRooms' = st.manager.rooms
         /\ collisionBoxes' = st.manager.collisionBoxes
         /\ sceneAdds' = st.scene
         /\ spawnPoint' = Some([point |-> st.spawnPoint, by |-> i,
                                calls |-> Len(returned[i])])
    /\ builds' = builds + 1
    /\ UNCHANGED << args, returned, lastCall, lastCheck, prng >>

Next ==
    \E i \in Single :
       \/ GenerateBegin(i)
       \/ GrowStep(i)
       \/ GrowDone(i)
       \/ SpecialStep(i)
       \/ GenerateReturn(i)
       \/ BuildAllRooms(i)

Spec == Init /\ [][Next]_vars

(***************************************************************************)
(* generate() alone, run to its return once it is called: a call is one    *)
(* synchronous run of the interpreter                                      *)
(***************************************************************************)
\* the steps of a generate() call after its first
GenerateBody(i) ==
    \/ GrowStep(i)
    \/ GrowDone(i)
    \/ SpecialStep(i)
    \/ GenerateReturn(i)

RunNext ==
    \E i \in Single :
       \/ GenerateBegin(i)
       \/ GenerateBody(i)

SpecRun == Init /\ [][RunNext]_vars /\ \A i \in Single : WF_vars(GenerateBody(i))

(***************************************************************************)
(* A generator asked about the rooms near a position, before and after its *)
(* first generate()                                                        *)
(***************************************************************************)
\* the arguments of the generators asked: a fixed room count, no special
\* rooms
QueryArgs ==
    { a \in ConfigArgs : /\ a.minRooms = a.maxRooms
                         /\ a.treasureRoomChance = Never
                         /\ a.shrineRoomChance = Never }

QueryInit ==
    /\ \E a \in QueryArgs, r \in RandomSeeds :
         /\ args = [i \in Single |-> a]
         /\ gen = [i \in Single |-> NewGenerator(a, r)]
    /\ returned = [i \in Single |-> << >>]
    /\ ManagerInit

\* the positions asked about: the world origin and the corner of each
\* placed room, moved by one of these offsets on each axis
QueryOffsets == { Fixed(-1), 0, Fixed(299) }

QueryBases(g) ==
    { [x |-> 0, z |-> 0] } \cup
    { [x |-> g.rooms[k].worldX, z |-> g.rooms[k].worldZ] : k \in 1 .. Len(g.rooms) }

GridRadii == {0, 1}

\* the caller asks getNearbyRooms(worldX, worldZ, gridRadius)
GetNearbyRooms(i) ==
    /\ Quiet
    /\ \E base \in QueryBases(gen[i]), dx \in QueryOffsets, dz \in QueryOffsets,
          gridRadius \in GridRadii :
         lastCall' = Some([op |-> "getNearbyRooms", by |-> i, calls |-> Len(returned[i]),
                           worldX |-> base.x + dx, worldZ |-> base.z + dz,
                           gridRadius |-> gridRadius,
                           result |-> getNearbyRooms(gen[i], base.x + dx, base.z + dz,
                                                     gridRadius)])
    /\ UNCHANGED << gen, args, returned, mgrRooms, collisionBoxes, sceneAdds,
                    spawnPoint, builds, lastCheck, prng >>

QueryNext ==
    \E i \in Single :
       \/ Len(returned[i]) = 0 /\ GenerateBegin(i)
       \/ GenerateBody(i)
       \/ GetNearbyRooms(i)

SpecQuery == QueryInit /\ [][QueryNext]_vars

(***************************************************************************)
(* A generator whose caller mixes generate(), buildRoom, buildAllRooms and *)
(* getSeed calls                                                           *)
(***************************************************************************)
\* the room ids buildRoom is called with: the first two, and one no room has
BuildRoomIds == {0, 1, MaxTarget}

\* the caller calls buildRoom(roomId)
BuildRoom(i) ==
    /\ Quiet
    /\ \E roomId \in BuildRoomIds :
       \E built \in { buildRoom(gen[i], roomId) } :
         /\ gen' = [gen EXCEPT ![i] = built.g]
         /\ lastCall' = Some([op |-> "buildRoom", by |-> i, calls |-> Len(returned[i]),
                              roomId |-> roomId,
                              result |-> IF built.group = None THEN None
                                         ELSE Some(built.group[1].name)])
    /\ UNCHANGED << args, returned, mgrRooms, collisionBoxes, sceneAdds,
                    spawnPoint, builds, lastCheck, prng >>

\* the caller calls getSeed()
GetSeed(i) ==
    /\ Quiet
    /\ lastCall' = Some([op |-> "getSeed", by |-> i, calls |-> Len(returned[i]),
                         result |-> getSeed(gen[i])])
    /\ UNCHANGED << gen, args, returned, mgrRooms, collisionBoxes, sceneAdds,
                    spawnPoint, builds, lastCheck, prng >>

SeedNext ==
    \E i \in Single :
       \/ GenerateBegin(i)
       \/ GenerateBody(i)
       \/ BuildAllRooms(i)
       \/ BuildRoom(i)
       \/ GetSeed(i)

SpecSeed == QueryInit /\ [][SeedNext]_vars

(***************************************************************************)
(* A SeededRandom object used on its own                                   *)
(***************************************************************************)
\* at most this many draws are made from one object
MaxDraws == 4

\* the seeds: this.seed modulo 2^32, among them the least and the greatest
\* word and the words around the sign bit
RngSeeds ==
    { << 0, 0 >>, << 0, 1 >>, ToWord(7), ToWord(12345), ToWord(999998),
      << 32767, 65535 >>, << 32768, 0 >>, << 37492, 34315 >>, << 65535, 65535 >> }

\* the arguments of nextInt, of chance and of pick
IntRanges == { << 0, 1 >>, << 0, 4 >>, << 1, 9 >>, << -3, 3 >>, << 8, 16 >> }

PickArrays == { << "north" >>, << "basic", "corridor_ns", "corridor_ew" >>,
                << "north", "south", "east", "west" >> }

RngInit ==
    /\ gen = << >>
    /\ args = << >>
    /\ returned = << >>
    /\ mgrRooms = << >>
    /\ collisionBoxes = << >>
    /\ sceneAdds = << >>
    /\ spawnPoint = None
    /\ builds = 0
    /\ prng \in { Some(s) : s \in RngSeeds }
    /\ lastCall = None
    /\ lastCheck = None

\* the number of draws made so far
Draws == IF lastCall = None THEN 0 ELSE lastCall[1].draws

\* what a call of the object leaves alone
rngUnchanged == << gen, args, returned, mgrRooms, collisionBoxes, sceneAdds,
                  spawnPoint, builds, lastCheck >>

RngNext ==
    /\ Draws < MaxDraws
    /\ prng' = Some(RngAdvance(prng[1]))
    /\ lastCall' = Some([op |-> "next", draws |-> Draws + 1,
                         result |-> NextBits(prng[1])])
    /\ UNCHANGED rngUnchanged

RngNextInt ==
    /\ Draws < MaxDraws
    /\ \E range \in IntRanges :
          lastCall' = Some([op |-> "nextInt", draws |-> Draws + 1,
                            min |-> range[1], max |-> range[2],
                            result |-> NextInt(prng[1], range[1], range[2])])
    /\ prng' = Some(RngAdvance(prng[1]))
    /\ UNCHANGED rngUnchanged

RngChance ==
    /\ Draws < MaxDraws
    /\ \E p \in Chances :
          lastCall' = Some([op |-> "chance", draws |-> Draws + 1, probability |-> p,
                            result |-> Chance(prng[1], p)])
    /\ prng' = Some(RngAdvance(prng[1]))
    /\ UNCHANGED rngUnchanged

RngPick ==
    /\ Draws < MaxDraws
    /\ \E arr \in PickArrays :
          lastCall' = Some([op |-> "pick", draws |-> Draws + 1, arr |-> arr,
                            result |-> Pick(prng[1], arr)])
    /\ prng' = Some(RngAdvance(prng[1]))
    /\ UNCHANGED rngUnchanged

RngStep == RngNext \/ RngNextInt \/ RngChance \/ RngPick

SpecRng == RngInit /\ [][RngStep]_vars

(***************************************************************************)
(* Two generators constructed from the same argument, each running its     *)
(* first generate()                                                        *)
(***************************************************************************)
Instances == {"A", "B"}

TwinInit ==
    /\ \E a \in ConfigArgs, r \in [Instances -> RandomSeeds] :
         /\ args = [i \in Instances |-> a]
         /\ gen = [i \in Instances |-> NewGenerator(a, r[i])]
    /\ returned = [i \in Instances |-> << >>]
    /\ ManagerInit

FirstGenerate(i) == Len(returned[i]) = 0 /\ GenerateBegin(i)

TwinNext ==
    \E i \in Instances :
       \/ FirstGenerate(i)
       \/ GrowStep(i)
       \/ GrowDone(i)
       \/ SpecialStep(i)
       \/ GenerateReturn(i)

SpecTwin == TwinInit /\ [][TwinNext]_vars

(***************************************************************************)
(* A room manager given room groups by its caller, and collision queries   *)
(***************************************************************************)
\* at most this many groups are added
MaxSupplied == 2

\* a group holding volumes only, with no metadata
BareGroup(name, x, z, volumes) ==
    [name |-> name, userData |-> << >>, children |-> volumes,
     position |-> [x |-> x, z |-> z]]

At(group, x, z) == [group EXCEPT !.position = [x |-> x, z |-> z]]

SuppliedGroups ==
    { BareGroup("floor_only", 0, 0,
        << createFloor(TILE_SIZE \div 2, TILE_SIZE \div 2, TILE_SIZE, TILE_SIZE) >>),
      BareGroup("two_floors", TILE_SIZE, 0,
        << createFloor(0, 0, 2 * TILE_SIZE, 2 * TILE_SIZE),
           createFloor(0, TILE_SIZE, TILE_SIZE, TILE_SIZE) >>),
      BareGroup("unit_wall", 0, 0,
        << createWall(TILE_SIZE \div 2, TILE_SIZE \div 2, TILE_SIZE, TILE_SIZE) >>),
      [BareGroup("partial", 0, 2 * TILE_SIZE,
         << createFloor(TILE_SIZE, TILE_SIZE \div 2, 2 * TILE_SIZE, TILE_SIZE),
            createWall(TILE_SIZE, 0, 2 * TILE_SIZE, Fixed(20)) >>)
         EXCEPT !.userData = [theme |-> "crypt",
                              dimensions |-> [width |-> 2, depth |-> 1, height |-> 1]]],
      createCorridorNS,
      At(createCorridorEW, TILE_SIZE, TILE_SIZE),
      At(createDeadEndRoom("west", "shrine"), 0 - TILE_SIZE, 0) }

\* the coordinates and radii queried
QueryCoords == { Fixed(n) : n \in {-11, -10, 50, 101, 105, 110, 111} }

QueryDepths == { Fixed(n) : n \in {-11, 50, 110} }

Radii == { Fixed(1), Fixed(10), DefaultRadius }

CollisionInit ==
    /\ gen = << >>
    /\ args = << >>
    /\ returned = << >>
    /\ ManagerInit

\* the caller adds a group
AddRoom ==
    /\ Len(mgrRooms) < MaxSupplied
    /\ \E group \in SuppliedGroups :
       \E m \in { addRoom([rooms |-> mgrRooms, collisionBoxes |-> collisionBoxes], group) } :
         /\ mgrRooms' = m.rooms
         /\ collisionBoxes' = m.collisionBoxes
         /\ sceneAdds' = Append(sceneAdds, SceneAdd("manager", group))
    /\ UNCHANGED << gen, args, returned, spawnPoint, builds, lastCall, lastCheck, prng >>

\* the caller asks checkCollision(x, z, radius)
CheckCollision ==
    /\ \E x \in QueryCoords, z \in QueryDepths, radius \in Radii :
         lastCheck' = Some([x |-> x, z |-> z, radius |-> radius,
                            result |-> checkCollision(collisionBoxes, x, z, radius),
                            registered |-> Len(mgrRooms)])
    /\ UNCHANGED << gen, args, returned, mgrRooms, collisionBoxes, sceneAdds,
                    spawnPoint, builds, lastCall, prng >>

CollisionNext == AddRoom \/ CheckCollision

SpecCollision == CollisionInit /\ [][CollisionNext]_vars

(***************************************************************************)
(* A caller of the shape catalog                                           *)
(***************************************************************************)
\* the variants of a dead end
Variants == {"empty", "treasure", "shrine"}

\* the shapes of the catalog, by constructor and options
CatalogShapes ==
    { [constructor |-> "createBasicRoom", options |-> None, group |-> createBasicRoom],
      [constructor |-> "createCorridorNS", options |-> None, group |-> createCorridorNS],
      [constructor |-> "createCorridorEW", options |-> None, group |-> createCorridorEW],
      [constructor |-> "createJunctionRoom", options |-> None,
       group |-> createJunctionRoom] }
    \cup { [constructor |-> "createDeadEndRoom",
            options |-> Some([entrance |-> e, variant |-> v]),
            group |-> createDeadEndRoom(e, v)] :
             e \in Directions, v \in Variants }

\* the materials arguments: none at all, or floor and wall, each a material
\* or left out
MaterialValues == {Undefined, "stone", "brick"}

MaterialArgs == {None} \cup { Some(m) : m \in [floor : MaterialValues, wall : MaterialValues] }

CatalogInit ==
    /\ gen = << >>
    /\ args = << >>
    /\ returned = << >>
    /\ ManagerInit

\* the caller constructs a shape
ConstructShape ==
    /\ \E shape \in CatalogShapes, materials \in MaterialArgs :
         lastCall' = Some([op |-> shape.constructor, options |-> shape.options,
                           materials |-> materials,
                           result |-> ShapeCall(shape.group, materials)])
    /\ UNCHANGED << gen, args, returned, mgrRooms, collisionBoxes, sceneAdds,
                    spawnPoint, builds, lastCheck, prng >>

CatalogNext == ConstructShape

SpecCatalog == CatalogInit /\ [][CatalogNext]_vars

(***************************************************************************)
(* Properties                                                              *)
(***************************************************************************)
\* the direction opposite to d, written out
Facing(d) ==
    CASE d = "north" -> "south"
      [] d = "south" -> "north"
      [] d = "east"  -> "west"
      [] d = "west"  -> "east"

\* generate() has run to the end of its growth loop, or has returned
GrowthOver(g) == g.pc = "special" \/ (g.pc = "idle" /\ g.targetRoomCount > 0)

\* C1: two generators constructed separately from the same argument, with
\* a seed given, return from their first generate() the same room graph:
\* the same ids, and per id the same type, grid cell and connection map
DeterminismAcrossInstances ==
    \A i \in DOMAIN returned : \A j \in DOMAIN returned :
       ( /\ args[i] = args[j]
         /\ args[i].seed # None
         /\ Len(returned[i]) >= 1
         /\ Len(returned[j]) >= 1 )
       => returned[i][1] = returned[j][1]

\* both generators were given seed 12345 and have returned eight rooms
DeterminismWitness ==
    /\ DOMAIN returned = {"A", "B"}
    /\ args["A"].seed = Some(12345)
    /\ Len(returned["A"]) = 1
    /\ Len(returned["B"]) = 1
    /\ Cardinality(returned["A"][1]) = 8
    /\ Cardinality(returned["B"][1]) = 8

\* C2: a second generate() on the same generator returns the room graph
\* the first one returned
RegenerationReproduces ==
    \A i \in DOMAIN returned :
       Len(returned[i]) >= 2 => returned[i][2] = returned[i][1]

\* C3: at every moment no two rooms of a generator share a grid cell and
\* the occupancy map holds exactly the rooms' cells; and a step of the
\* growth loop that inserts a room inserts it at a cell the occupancy map
\* did not hold before the step
NoOverlapNow ==
    \A i \in DOMAIN gen :
       /\ \A k \in 1 .. Len(gen[i].rooms) : \A l \in 1 .. Len(gen[i].rooms) :
             ( /\ gen[i].rooms[k].gridX = gen[i].rooms[l].gridX
               /\ gen[i].rooms[k].gridZ = gen[i].rooms[l].gridZ ) => k = l
       /\ DOMAIN gen[i].grid =
             { << gen[i].rooms[k].gridX, gen[i].rooms[k].gridZ >> :
                 k \in 1 .. Len(gen[i].rooms) }
       /\ \A k \in 1 .. Len(gen[i].rooms) :
             /\ gen[i].grid[<< gen[i].rooms[k].gridX, gen[i].rooms[k].gridZ >>].roomId
                  = gen[i].rooms[k].id
             /\ gen[i].grid[<< gen[i].rooms[k].gridX, gen[i].rooms[k].gridZ >>].occupied

InsertedAtFreeCell ==
    \A i \in DOMAIN gen :
       ( gen[i].pc = "grow" /\ Len(gen'[i].rooms) = Len(gen[i].rooms) + 1 )
       => << gen'[i].rooms[Len(gen'[i].rooms)].gridX,
             gen'[i].rooms[Len(gen'[i].rooms)].gridZ >> \notin DOMAIN gen[i].grid

NoOverlap == []NoOverlapNow /\ [][InsertedAtFreeCell]_vars

\* a generator holds eight rooms and one of its rooms has a neighbouring
\* cell taken by a room it is not linked to
NoOverlapWitness ==
    \E i \in DOMAIN gen :
       /\ Len(gen[i].rooms) = 8
       /\ \E k \in 1 .. 8 : \E l \in 1 .. 8 : \E d \in Directions :
            /\ gen[i].rooms[l].gridX = gen[i].rooms[k].gridX + DIRECTION_OFFSET(d).x
            /\ gen[i].rooms[l].gridZ = gen[i].rooms[k].gridZ + DIRECTION_OFFSET(d).z
            /\ ~ConnHas(gen[i].rooms[k].connections, d)

\* C4: after every expansion step and in every graph generate() returned,
\* a connection of room R in direction D names a placed room N, and N's
\* connection in the direction opposite to D names R
Bidirectional ==
    /\ \A i \in DOMAIN gen :
       \A k \in 1 .. Len(gen[i].rooms) :
       \A c \in 1 .. Len(gen[i].rooms[k].connections) :
          \E l \in 1 .. Len(gen[i].rooms) :
             /\ gen[i].rooms[l].id = gen[i].rooms[k].connections[c].target
             /\ \E b \in 1 .. Len(gen[i].rooms[l].connections) :
                  /\ gen[i].rooms[l].connections[b].dir =
                        Facing(gen[i].rooms[k].connections[c].dir)
                  /\ gen[i].rooms[l].connections[b].target = gen[i].rooms[k].id
    /\ \A i \in DOMAIN returned :
       \A n \in 1 .. Len(returned[i]) :
       \A R \in returned[i][n] : \A link \in R.connections :
          \E N \in returned[i][n] :
             /\ N.id = link[2]
             /\ << Facing(link[1]), R.id >> \in N.connections

\* a generator has returned a graph of eight rooms in which some room is
\* linked on three sides
BidirectionalWitness ==
    \E i \in DOMAIN returned :
       /\ Len(returned[i]) >= 1
       /\ Cardinality(returned[i][1]) = 8
       /\ \E R \in returned[i][1] : Cardinality(R.connections) >= 3

\* C5: once the growth loop of generate() is over, and so when generate()
\* returns, there are at least one and at most targetRoomCount rooms, and
\* fewer than targetRoomCount only with an empty frontier
RoomCountBound ==
    \A i \in DOMAIN gen :
       GrowthOver(gen[i]) =>
          /\ Len(gen[i].rooms) >= 1
          /\ Len(gen[i].rooms) <= gen[i].targetRoomCount
          /\ ( Len(gen[i].rooms) < gen[i].targetRoomCount => gen[i].frontier = << >> )

\* generate() has returned with minRooms 7 and maxRooms 8, the target
\* drawn was 8 and eight rooms were placed
RoomCountWitness ==
    \E i \in DOMAIN gen :
       /\ gen[i].pc = "idle"
       /\ Len(returned[i]) >= 1
       /\ gen[i].config.minRooms = 7
       /\ gen[i].targetRoomCount = 8
       /\ Len(gen[i].rooms) = 8

\* the rooms of g made dead ends of the given variant
MadeInto(g, variant) ==
    { k \in 1 .. Len(g.rooms) :
        /\ g.rooms[k].type = "dead_end"
        /\ g.rooms[k].group # None
        /\ "roomType" \in DOMAIN g.rooms[k].group[1].userData
        /\ g.rooms[k].group[1].userData.roomType = variant }

\* C6: in every generate() run, whatever the two chances (both 1
\* included), at most two rooms are made treasure rooms and at most one a
\* shrine; and a room whose type becomes dead_end had, before that step,
\* exactly one connection and a type other than junction
SpecialCapsNow ==
    \A i \in DOMAIN gen :
       /\ Cardinality(MadeInto(gen[i], "treasure")) <= 2
       /\ Cardinality(MadeInto(gen[i], "shrine")) <= 1
       /\ gen[i].treasureRoomCount = Cardinality(MadeInto(gen[i], "treasure"))
       /\ gen[i].shrineRoomCount = Cardinality(MadeInto(gen[i], "shrine"))
       /\ \A k \in 1 .. Len(gen[i].rooms) :
            gen[i].rooms[k].type = "dead_end" =>
               k \in MadeInto(gen[i], "treasure") \cup MadeInto(gen[i], "shrine")

ReclassifiedWasDeadEnd ==
    \A i \in DOMAIN gen :
       \A k \in 1 .. Len(gen[i].rooms) :
          ( /\ gen[i].pc = "special"
            /\ k <= Len(gen'[i].rooms)
            /\ gen[i].rooms[k].type # "dead_end"
            /\ gen'[i].rooms[k].type = "dead_end" )
          => /\ Len(gen[i].rooms[k].connections) = 1
             /\ gen[i].rooms[k].type # "junction"

SpecialRoomCaps == []SpecialCapsNow /\ [][ReclassifiedWasDeadEnd]_vars

\* with both chances 1, generate() has returned with two treasure rooms,
\* one shrine and a further room with one connection left as it was
SpecialRoomCapsWitness ==
    \E i \in DOMAIN gen :
       /\ gen[i].pc = "idle"
       /\ Len(returned[i]) >= 1
       /\ gen[i].config.treasureRoomChance = Always
       /\ gen[i].config.shrineRoomChance = Always
       /\ Cardinality(MadeInto(gen[i], "treasure")) = 2
       /\ Cardinality(MadeInto(gen[i], "shrine")) = 1
       /\ \E k \in 1 .. Len(gen[i].rooms) :
            /\ Len(gen[i].rooms[k].connections) = 1
            /\ gen[i].rooms[k].type \notin {"dead_end", "junction"}

\* the groups the manager held when the last checkCollision was made
RegisteredThen == SubSeq(mgrRooms, 1, lastCheck[1].registered)

\* C7: no volume tagged floor is in the collision index, the index holds
\* one box per volume of another type, and checkCollision returned false
\* whenever every group registered held floor volumes only
FloorExclusion ==
    /\ \A k \in 1 .. Len(collisionBoxes) : collisionBoxes[k].type # "floor"
    /\ lastCheck # None =>
         ( ( \A k \in 1 .. Len(RegisteredThen) :
             \A c \in 1 .. Len(RegisteredThen[k].group.children) :
                RegisteredThen[k].group.children[c].type = "floor" )
           => ~lastCheck[1].result )

\* two groups of floor volumes are registered and checkCollision was asked
\* about the centre of a floor, with the default radius
FloorExclusionWitness ==
    /\ lastCheck # None
    /\ lastCheck[1].registered = 2
    /\ \A k \in 1 .. 2 : \A c \in 1 .. Len(mgrRooms[k].group.children) :
          mgrRooms[k].group.children[c].type = "floor"
    /\ mgrRooms[1].group.name = "floor_only"
    /\ lastCheck[1].x = TILE_SIZE \div 2
    /\ lastCheck[1].z = TILE_SIZE \div 2
    /\ lastCheck[1].radius = DefaultRadius
    /\ ~lastCheck[1].result

\* C8: checkCollision(x, z, r) returned true exactly when some volume not
\* tagged floor of a registered group has min.x - r <= x <= max.x + r and
\* min.z - r <= z <= max.z + r; and with the one wall [0,1] x [0,1]
\* registered, (1.05, 0.5) gave true for r = 0.1 and false for r = 0.01
ExpansionCorrect ==
    lastCheck # None =>
       /\ lastCheck[1].result =
            ( \E k \in 1 .. Len(RegisteredThen) :
              \E c \in 1 .. Len(RegisteredThen[k].group.children) :
                 /\ RegisteredThen[k].group.children[c].type # "floor"
                 /\ 2 * (RegisteredThen[k].group.position.x
                           + RegisteredThen[k].group.children[c].x)
                      - RegisteredThen[k].group.children[c].width
                      - 2 * lastCheck[1].radius <= 2 * lastCheck[1].x
                 /\ 2 * lastCheck[1].x <=
                      2 * (RegisteredThen[k].group.position.x
                             + RegisteredThen[k].group.children[c].x)
                      + RegisteredThen[k].group.children[c].width
                      + 2 * lastCheck[1].radius
                 /\ 2 * (RegisteredThen[k].group.position.z
                           + RegisteredThen[k].group.children[c].z)
                      - RegisteredThen[k].group.children[c].depth
                      - 2 * lastCheck[1].radius <= 2 * lastCheck[1].z
                 /\ 2 * lastCheck[1].z <=
                      2 * (RegisteredThen[k].group.position.z
                             + RegisteredThen[k].group.children[c].z)
                      + RegisteredThen[k].group.children[c].depth
                      + 2 * lastCheck[1].radius )
       /\ ( /\ Len(RegisteredThen) = 1
            /\ RegisteredThen[1].group.name = "unit_wall"
            /\ lastCheck[1].x = Fixed(105)
            /\ lastCheck[1].z = Fixed(50) )
          => /\ lastCheck[1].radius = Fixed(10) => lastCheck[1].result
             /\ lastCheck[1].radius = Fixed(1) => ~lastCheck[1].result

\* the one wall [0,1] x [0,1] is registered and checkCollision(1.05, 0.5,
\* 0.1) returned true
ExpansionWitness ==
    /\ lastCheck # None
    /\ lastCheck[1].registered = 1
    /\ mgrRooms[1].group.name = "unit_wall"
    /\ lastCheck[1].x = Fixed(105)
    /\ lastCheck[1].z = Fixed(50)
    /\ lastCheck[1].radius = Fixed(10)
    /\ lastCheck[1].result

\* C9: with minRooms = maxRooms = N, branchingFactor 0 and both special
\* chances 0, every graph generate() returns has exactly N rooms, room 0 is
\* its only junction, every other room is basic, corridor_ns or
\* corridor_ew, and none is a dead_end
ForcedCount ==
    \A i \in DOMAIN returned :
       ( /\ args[i].minRooms = args[i].maxRooms
         /\ args[i].branchingFactor = Never
         /\ args[i].treasureRoomChance = Never
         /\ args[i].shrineRoomChance = Never )
       => \A n \in 1 .. Len(returned[i]) :
             /\ Cardinality(returned[i][n]) = args[i].minRooms
             /\ Cardinality({ R.id : R \in returned[i][n] }) = args[i].minRooms
             /\ \A R \in returned[i][n] :
                  /\ R.type = "junction" <=> R.id = 0
                  /\ R.id # 0 => R.type \in {"basic", "corridor_ns", "corridor_ew"}
                  /\ R.type # "dead_end"

\* seed 12345, minRooms = maxRooms = 8, all three chances 0: generate()
\* has returned
ForcedCountWitness ==
    \E i \in DOMAIN returned :
       /\ args[i].seed = Some(12345)
       /\ args[i].minRooms = 8
       /\ args[i].maxRooms = 8
       /\ args[i].branchingFactor = Never
       /\ args[i].treasureRoomChance = Never
       /\ args[i].shrineRoomChance = Never
       /\ Len(returned[i]) >= 1
       /\ Cardinality(returned[i][1]) = 8

\* C10: buildAllRooms called after a generate() returns the world position
\* of room 0 plus one tile on x and on z, at height 0.5: a point inside the
\* room's three by three tiles that is not their centre
SpawnPointInHub ==
    ( spawnPoint # None /\ spawnPoint[1].calls >= 1 ) =>
       \E k \in 1 .. Len(gen[spawnPoint[1].by].rooms) :
          /\ gen[spawnPoint[1].by].rooms[k].id = 0
          /\ spawnPoint[1].point.x = gen[spawnPoint[1].by].rooms[k].worldX + TILE_SIZE
          /\ spawnPoint[1].point.z = gen[spawnPoint[1].by].rooms[k].worldZ + TILE_SIZE
          /\ spawnPoint[1].point.y = Fixed(50)
          /\ spawnPoint[1].point.x >= gen[spawnPoint[1].by].rooms[k].worldX
          /\ spawnPoint[1].point.x <= gen[spawnPoint[1].by].rooms[k].worldX + 3 * TILE_SIZE
          /\ spawnPoint[1].point.z >= gen[spawnPoint[1].by].rooms[k].worldZ
          /\ spawnPoint[1].point.z <= gen[spawnPoint[1].by].rooms[k].worldZ + 3 * TILE_SIZE
          /\ ~( /\ 2 * spawnPoint[1].point.x =
                     2 * gen[spawnPoint[1].by].rooms[k].worldX + 3 * TILE_SIZE
                /\ 2 * spawnPoint[1].point.z =
                     2 * gen[spawnPoint[1].by].rooms[k].worldZ + 3 * TILE_SIZE )

\* buildAllRooms has run after a generate() that placed eight rooms, and
\* all eight are in the room manager
SpawnPointWitness ==
    /\ spawnPoint # None
    /\ spawnPoint[1].calls >= 1
    /\ Len(mgrRooms) = 8
    /\ spawnPoint[1].point = [x |-> TILE_SIZE, y |-> Fixed(50), z |-> TILE_SIZE]

\* C11: a shape constructor called without the floor material or without
\* the wall material throws and returns no group
CatalogFailFast ==
    ( /\ lastCall # None
      /\ lastCall[1].op \in { shape.constructor : shape \in CatalogShapes }
      /\ \/ lastCall[1].materials = None
         \/ lastCall[1].materials[1].floor = Undefined
         \/ lastCall[1].materials[1].wall = Undefined )
    => /\ lastCall[1].result.threw
       /\ lastCall[1].result.group = None

\* the volumes not tagged floor of the groups the manager holds, in order
RECURSIVE NonFloorVolumes(_)
NonFloorVolumes(roomList) ==
    IF roomList = << >> THEN << >>
    ELSE NonFloorVolumes(SubSeq(roomList, 1, Len(roomList) - 1))
         \o SelectSeq(roomList[Len(roomList)].group.children,
                      LAMBDA volume : volume.type # "floor")

\* C12: every addRoom call records a room, whatever metadata the group
\* lacks: a missing dimensions is recorded as 1 x 1 x 1, missing connections
\* as no connection on any side, a missing theme as 'default', a missing
\* difficulty as 'normal', a field that is there as it is; and the index
\* holds one box for each volume of the group that is not tagged floor
ManagerLeniency ==
    /\ Len(sceneAdds) = Len(mgrRooms)
    /\ \A k \in 1 .. Len(mgrRooms) :
         /\ sceneAdds[k].name = mgrRooms[k].group.name
         /\ mgrRooms[k].dimensions =
              IF "dimensions" \in DOMAIN mgrRooms[k].group.userData
                THEN mgrRooms[k].group.userData.dimensions
                ELSE [width |-> 1, depth |-> 1, height |-> 1]
         /\ DOMAIN mgrRooms[k].connections =
              IF "connections" \in DOMAIN mgrRooms[k].group.userData
                THEN DOMAIN mgrRooms[k].group.userData.connections
                ELSE {}
         /\ mgrRooms[k].theme =
              IF "theme" \in DOMAIN mgrRooms[k].group.userData
                THEN mgrRooms[k].group.userData.theme
                ELSE "default"
         /\ mgrRooms[k].difficulty =
              IF "difficulty" \in DOMAIN mgrRooms[k].group.userData
                THEN mgrRooms[k].group.userData.difficulty
                ELSE "normal"
    /\ Len(collisionBoxes) = Len(NonFloorVolumes(mgrRooms))
    /\ \A b \in 1 .. Len(collisionBoxes) :
         /\ collisionBoxes[b].type = NonFloorVolumes(mgrRooms)[b].type
         /\ collisionBoxes[b].box.maxX - collisionBoxes[b].box.minX
              = NonFloorVolumes(mgrRooms)[b].width
         /\ collisionBoxes[b].box.maxZ - collisionBoxes[b].box.minZ
              = NonFloorVolumes(mgrRooms)[b].depth

\* the manager holds a group with no metadata at all and a group with a
\* theme and dimensions only, each with a wall, and both walls are indexed
ManagerLeniencyWitness ==
    /\ Len(mgrRooms) = 2
    /\ mgrRooms[1].group.name = "unit_wall"
    /\ DOMAIN mgrRooms[1].group.userData = {}
    /\ mgrRooms[2].group.name = "partial"
    /\ mgrRooms[2].theme = "crypt"
    /\ mgrRooms[2].difficulty = "normal"
    /\ Len(collisionBoxes) = 2

\* each iteration of the growth loop places one room, which joins the
\* frontier, or takes one room off the frontier and places none
GrowthProgress ==
    \A i \in DOMAIN gen :
       ( gen[i].pc = "grow" /\ gen'[i].pc = "grow" /\ gen'[i] # gen[i] )
       => \/ /\ Len(gen'[i].rooms) = Len(gen[i].rooms) + 1
             /\ Len(gen'[i].frontier) = Len(gen[i].frontier) + 1
          \/ /\ Len(gen'[i].rooms) = Len(gen[i].rooms)
             /\ Len(gen'[i].frontier) = Len(gen[i].frontier) - 1

\* inside the growth loop the rooms placed do not exceed the target nor
\* the frontier the rooms placed
GrowthBounded ==
    \A i \in DOMAIN gen :
       gen[i].pc = "grow" =>
          /\ Len(gen[i].rooms) <= gen[i].targetRoomCount
          /\ Len(gen[i].frontier) <= Len(gen[i].rooms)

\* C13: every generate() call reaches its return; each iteration of its
\* growth loop places one new room or removes one room from the frontier,
\* with the rooms placed bounded by the target and the frontier by the
\* rooms placed, so the loop ends
Termination ==
    /\ [][GrowthProgress]_vars
    /\ []GrowthBounded
    /\ \A i \in Single : (gen[i].pc # "idle") ~> (gen[i].pc = "idle")

\* a generate() call that drew the target 8 has returned eight rooms
TerminationWitness ==
    \E i \in DOMAIN gen :
       /\ gen[i].pc = "idle"
       /\ Len(returned[i]) = 1
       /\ gen[i].targetRoomCount = 8
       /\ Cardinality(returned[i][1]) = 8

\* the scene.add calls the generator made among the calls from position
\* from on
GeneratorAdds(adds, from) ==
    SelectSeq(SubSeq(adds, from, Len(adds)), LAMBDA add : add.by = "generator")

\* the calls of RoomManager.addRoom among the scene.add calls from position
\* from on (addRoom adds the group it is given to the scene)
ManagerAdds(adds, from) ==
    SelectSeq(SubSeq(adds, from, Len(adds)), LAMBDA add : add.by = "manager")

\* C14: a buildAllRooms call made after generate() leaves every placed
\* room with geometry, and during the call the generator makes one
\* scene.add and one roomManager.addRoom call per placed room, in the order
\* of the room map, so that the manager's list gains one entry per room
BuildCoversStep ==
    ( /\ builds' = builds + 1
      /\ spawnPoint'[1].calls >= 1 )
    => /\ \A k \in 1 .. Len(gen'[spawnPoint'[1].by].rooms) :
            gen'[spawnPoint'[1].by].rooms[k].group # None
       /\ Len(gen'[spawnPoint'[1].by].rooms) = Len(gen[spawnPoint'[1].by].rooms)
       /\ Len(mgrRooms') = Len(mgrRooms) + Len(gen[spawnPoint'[1].by].rooms)
       /\ Len(GeneratorAdds(sceneAdds', Len(sceneAdds) + 1))
            = Len(gen[spawnPoint'[1].by].rooms)
       /\ Len(ManagerAdds(sceneAdds', Len(sceneAdds) + 1))
            = Len(gen[spawnPoint'[1].by].rooms)
       /\ SubSeq(sceneAdds', 1, Len(sceneAdds)) = sceneAdds
       /\ SubSeq(mgrRooms', 1, Len(mgrRooms)) = mgrRooms
       /\ \A k \in 1 .. Len(gen[spawnPoint'[1].by].rooms) :
            /\ mgrRooms'[Len(mgrRooms) + k].group
                 = gen'[spawnPoint'[1].by].rooms[k].group[1]
            /\ mgrRooms'[Len(mgrRooms) + k].group.userData.roomId
                 = gen[spawnPoint'[1].by].rooms[k].id
            /\ GeneratorAdds(sceneAdds', Len(sceneAdds) + 1)[k].name
                 = gen'[spawnPoint'[1].by].rooms[k].group[1].name
            /\ GeneratorAdds(sceneAdds', Len(sceneAdds) + 1)[k].position
                 = [x |-> gen[spawnPoint'[1].by].rooms[k].worldX,
                    z |-> gen[spawnPoint'[1].by].rooms[k].worldZ]

BuildAllRoomsCoverage == [][BuildCoversStep]_vars

\* buildAllRooms has run once, after a generate() that placed eight rooms
\* of which one was made a treasure room: sixteen scene.add calls were
\* made and the manager holds the eight groups
BuildAllRoomsCoverageWitness ==
    /\ builds = 1
    /\ spawnPoint # None
    /\ spawnPoint[1].calls = 1
    /\ Len(gen[spawnPoint[1].by].rooms) = 8
    /\ Len(mgrRooms) = 8
    /\ Len(sceneAdds) = 16
    /\ \E k \in 1 .. 8 : mgrRooms[k].name = "DeadEnd_north_treasure"

\* the grid cell of world coordinate w is c: 3c <= w < 3(c + 1) in tiles
CellOf(w, c) == 3 * TILE_SIZE * c <= w /\ w < 3 * TILE_SIZE * (c + 1)

\* C15: getNearbyRooms(worldX, worldZ, r) returns the ids of the placed
\* rooms with |gridX - floor(worldX / 3)| <= r and |gridZ - floor(worldZ /
\* 3)| <= r, each once and no other; asked about the world position of a
\* placed room with r = 0 it returns the id of that room alone
NearbyRoomsExact ==
    ( /\ lastCall # None
      /\ lastCall[1].op = "getNearbyRooms"
      /\ Quiet
      /\ lastCall[1].calls = Len(returned[lastCall[1].by]) ) =>
       /\ \A k \in 1 .. Len(gen[lastCall[1].by].rooms) :
            ( \E n \in 1 .. Len(lastCall[1].result) :
                 lastCall[1].result[n] = gen[lastCall[1].by].rooms[k].id )
            <=> ( \E cx \in -MaxTarget - 2 .. MaxTarget + 2 :
                  \E cz \in -MaxTarget - 2 .. MaxTarget + 2 :
                    /\ CellOf(lastCall[1].worldX, cx)
                    /\ CellOf(lastCall[1].worldZ, cz)
                    /\ gen[lastCall[1].by].rooms[k].gridX - cx <= lastCall[1].gridRadius
                    /\ cx - gen[lastCall[1].by].rooms[k].gridX <= lastCall[1].gridRadius
                    /\ gen[lastCall[1].by].rooms[k].gridZ - cz <= lastCall[1].gridRadius
                    /\ cz - gen[lastCall[1].by].rooms[k].gridZ <= lastCall[1].gridRadius )
       /\ \A n \in 1 .. Len(lastCall[1].result) :
            /\ \E k \in 1 .. Len(gen[lastCall[1].by].rooms) :
                  lastCall[1].result[n] = gen[lastCall[1].by].rooms[k].id
            /\ \A m \in 1 .. Len(lastCall[1].result) :
                  lastCall[1].result[m] = lastCall[1].result[n] => m = n
       /\ \A k \in 1 .. Len(gen[lastCall[1].by].rooms) :
            ( /\ lastCall[1].worldX = gen[lastCall[1].by].rooms[k].worldX
              /\ lastCall[1].worldZ = gen[lastCall[1].by].rooms[k].worldZ
              /\ lastCall[1].gridRadius = 0 )
            => lastCall[1].result = << gen[lastCall[1].by].rooms[k].id >>

\* eight rooms are placed and getNearbyRooms, asked with radius 1 about a
\* position just left of and above the corner of a room at a negative grid
\* column, returned three or more ids
NearbyRoomsWitness ==
    /\ lastCall # None
    /\ lastCall[1].op = "getNearbyRooms"
    /\ Quiet
    /\ lastCall[1].calls = 1
    /\ Len(gen[lastCall[1].by].rooms) = 8
    /\ lastCall[1].gridRadius = 1
    /\ lastCall[1].worldX < 0
    /\ \E k \in 1 .. 8 :
         /\ gen[lastCall[1].by].rooms[k].gridX < 0
         /\ lastCall[1].worldX = gen[lastCall[1].by].rooms[k].worldX - Fixed(1)
         /\ lastCall[1].worldZ = gen[lastCall[1].by].rooms[k].worldZ - Fixed(1)
    /\ Len(lastCall[1].result) >= 3

\* the configured seed is the one given, or else one of the defaults; a
\* generator nothing was called on has its PRNG at that seed; and getSeed
\* returned the configured seed
SeedNow ==
    /\ \A i \in DOMAIN gen :
         /\ args[i].seed # None => gen[i].config.seed = args[i].seed[1]
         /\ args[i].seed = None => gen[i].config.seed \in RandomSeeds
         /\ ( Len(returned[i]) = 0 /\ gen[i].pc = "idle" )
              => gen[i].rng = ToWord(gen[i].config.seed)
    /\ ( lastCall # None /\ lastCall[1].op = "getSeed" )
         => lastCall[1].result = gen[lastCall[1].by].config.seed

\* no step changes the configured seed
SeedKept == \A i \in DOMAIN gen : gen'[i].config.seed = gen[i].config.seed

\* C16: getSeed() returns the seed the generator was constructed with, the
\* one given or the default chosen then, and no generate(), buildRoom or
\* buildAllRooms call changes it, though the draws move the PRNG on
SeedUnchanged == []SeedNow /\ [][SeedKept]_vars

\* getSeed was called on a generator constructed without a seed after two
\* generate() calls and a buildAllRooms call, with the PRNG no longer at
\* the seed
SeedUnchangedWitness ==
    /\ lastCall # None
    /\ lastCall[1].op = "getSeed"
    /\ lastCall[1].calls = 2
    /\ builds = 1
    /\ args[lastCall[1].by].seed = None
    /\ lastCall[1].result \in RandomSeeds
    /\ gen[lastCall[1].by].rng # ToWord(lastCall[1].result)

\* C17: next() returns u / 2^32 with 0 <= u < 2^32, so a value in [0, 1);
\* nextInt(min, max) returns an integer n with min <= n < max; pick
\* returns an element of its sequence; chance(0) is false and chance(1)
\* is true
RngRanges ==
    lastCall # None =>
       /\ lastCall[1].op = "next" =>
            /\ lastCall[1].result[1] \in 0 .. 65535
            /\ lastCall[1].result[2] \in 0 .. 65535
       /\ lastCall[1].op = "nextInt" =>
            /\ lastCall[1].result >= lastCall[1].min
            /\ lastCall[1].result < lastCall[1].max
       /\ lastCall[1].op = "pick" =>
            \E k \in 1 .. Len(lastCall[1].arr) : lastCall[1].result = lastCall[1].arr[k]
       /\ lastCall[1].op = "chance" =>
            /\ lastCall[1].probability = Never => ~lastCall[1].result
            /\ lastCall[1].probability = Always => lastCall[1].result

\* a fourth draw: nextInt(8, 16) returned 15
RngRangesWitness ==
    /\ lastCall # None
    /\ lastCall[1].op = "nextInt"
    /\ lastCall[1].draws = 4
    /\ lastCall[1].max = 16
    /\ lastCall[1].result = 15

\* room has on side dir no connection and an unoccupied neighbouring cell
SideAvailable(g, room, dir) ==
    /\ \A k \in 1 .. Len(room.connections) : room.connections[k].dir # dir
    /\ \A R \in Graph(g.rooms) :
          << R.gridX, R.gridZ >> # << room.gridX + DIRECTION_OFFSET(dir).x,
                                     room.gridZ + DIRECTION_OFFSET(dir).z >>

\* the ids in the frontier
FrontierIds(g) == { g.frontier[k] : k \in 1 .. Len(g.frontier) }

\* C18: whenever the condition of the growth loop is evaluated, every placed
\* room with an available direction is in the frontier and the frontier is
\* not empty; and once the loop is over, and so when generate() returns,
\* there are exactly targetRoomCount rooms (the target is at least 1)
FrontierNeverExhausts ==
    \A i \in DOMAIN gen :
       /\ gen[i].pc = "grow" =>
            /\ \A k \in 1 .. Len(gen[i].rooms) :
                  (\E dir \in Directions : SideAvailable(gen[i], gen[i].rooms[k], dir))
                     => gen[i].rooms[k].id \in FrontierIds(gen[i])
            /\ gen[i].frontier # << >>
       /\ (GrowthOver(gen[i]) /\ gen[i].targetRoomCount >= 1) =>
            Len(gen[i].rooms) = gen[i].targetRoomCount
       /\ \A n \in 1 .. Len(returned[i]) :
            (n = Len(returned[i]) /\ gen[i].pc = "idle" /\ gen[i].targetRoomCount >= 1)
               => Cardinality(returned[i][n]) = gen[i].targetRoomCount

\* the loop condition is about to be evaluated with six rooms placed, of
\* which one has no available direction left
FrontierWitness ==
    \E i \in DOMAIN gen :
       /\ gen[i].pc = "grow"
       /\ Len(gen[i].rooms) = 6
       /\ \E k \in 1 .. Len(gen[i].rooms) :
            \A dir \in Directions : ~SideAvailable(gen[i], gen[i].rooms[k], dir)

\* the sides on which the shape metadata of a room's geometry has a
\* connection point that is not null
Openings(room) == DOMAIN room.group[1].userData.connections

\* C19: after generate(), for every placed room R linked to a neighbour N in
\* direction D, the shape of R has an opening on side D and the shape of N
\* has an opening on the opposite side (a corridor_ns room is linked only
\* north or south, a corridor_ew room only east or west)
OpeningsMatchLinks ==
    \A i \in DOMAIN gen :
       (gen[i].pc = "idle" /\ Len(returned[i]) >= 1) =>
          \A k \in 1 .. Len(gen[i].rooms) :
             \A j \in 1 .. Len(gen[i].rooms[k].connections) :
                /\ gen[i].rooms[k].connections[j].dir \in Openings(gen[i].rooms[k])
                /\ OPPOSITE_DIRECTION(gen[i].rooms[k].connections[j].dir)
                      \in Openings(RoomById(gen[i].rooms,
                                            gen[i].rooms[k].connections[j].target))

\* the room the growth loop picks from the frontier in its next iteration
PickedRoom(g) == RoomById(g.rooms, Pick(g.rng, g.frontier))

\* an iteration of the growth loop of generator i
GrowthIteration(i) ==
    /\ gen[i].pc = "grow"
    /\ gen'[i].pc = "grow"
    /\ gen'[i] # gen[i]

\* C20: in an iteration of the growth loop, when getAvailableDirections
\* returns a list that is not empty the placeRoom call returns a room (a
\* room is inserted and pushed to the frontier); expandFrom returns null,
\* and the picked room leaves the frontier, if and only if the picked room
\* has no available direction
PlacementStep ==
    \A i \in DOMAIN gen :
       GrowthIteration(i) =>
          \A room \in { PickedRoom(gen[i]) } :
             /\ Len(getAvailableDirections(gen[i], room)) > 0 =>
                  /\ Len(gen'[i].rooms) = Len(gen[i].rooms) + 1
                  /\ gen'[i].frontier =
                       Append(gen[i].frontier, gen'[i].rooms[Len(gen'[i].rooms)].id)
             /\ Len(gen'[i].rooms) = Len(gen[i].rooms)
                  <=> ~\E dir \in Directions : SideAvailable(gen[i], room, dir)
             /\ Len(gen'[i].frontier) < Len(gen[i].frontier)
                  <=> ~\E dir \in Directions : SideAvailable(gen[i], room, dir)
             /\ Len(gen'[i].frontier) < Len(gen[i].frontier) =>
                  room.id \notin FrontierIds(gen'[i])

PlacementNeverFails == [][PlacementStep]_vars

\* the growth loop has removed a room from the frontier
PlacementWitness ==
    \E i \in DOMAIN gen :
       /\ gen[i].pc = "grow"
       /\ Len(gen[i].frontier) < Len(gen[i].rooms)

\* the rooms of g that are not in its frontier: each room enters the
\* frontier when it is placed, so these are the rooms removed from it
RemovedRooms(g) == { k \in 1 .. Len(g.rooms) : g.rooms[k].id \notin FrontierIds(g) }

\* C21: the frontier never holds a room twice, and a room removed from it
\* has no available direction, in the state of its removal and in every
\* later state of that generate(); the removal happens only in a step in
\* which the room picked has no available direction, and a removed room is
\* never put back and its connection map never changes
RemovedStayClosed ==
    \A i \in DOMAIN gen :
       /\ \A a \in 1 .. Len(gen[i].frontier) : \A b \in 1 .. Len(gen[i].frontier) :
             gen[i].frontier[a] = gen[i].frontier[b] => a = b
       /\ \A k \in RemovedRooms(gen[i]) :
             \A dir \in Directions : ~SideAvailable(gen[i], gen[i].rooms[k], dir)

RemovalStep ==
    \A i \in DOMAIN gen :
       gen[i].pc \in {"grow", "special"} =>
          \A k \in 1 .. Len(gen[i].rooms) :
             /\ k <= Len(gen'[i].rooms)
             /\ gen'[i].rooms[k].id = gen[i].rooms[k].id
             /\ (k \notin RemovedRooms(gen[i]) /\ k \in RemovedRooms(gen'[i])) =>
                   /\ gen[i].pc = "grow"
                   /\ gen[i].rooms[k].id = Pick(gen[i].rng, gen[i].frontier)
                   /\ \A dir \in Directions : ~SideAvailable(gen[i], gen[i].rooms[k], dir)
                   /\ Len(gen'[i].rooms) = Len(gen[i].rooms)
             /\ k \in RemovedRooms(gen[i]) =>
                   /\ k \in RemovedRooms(gen'[i])
                   /\ gen'[i].rooms[k].connections = gen[i].rooms[k].connections

RemovalPermanent == []RemovedStayClosed /\ [][RemovalStep]_vars

\* generate() has returned eight rooms; one of the first five was removed
\* from the frontier and every room placed after it is still in it
RemovalWitness ==
    \E i \in DOMAIN gen :
       /\ gen[i].pc = "idle"
       /\ Len(returned[i]) >= 1
       /\ Len(gen[i].rooms) = 8
       /\ \E k \in RemovedRooms(gen[i]) :
            /\ k <= 5
            /\ \A l \in (k + 1) .. 8 : l \notin RemovedRooms(gen[i])

\* the special-room pass of generator i visits a true dead end in this step
VisitsDeadEnd(i) ==
    /\ gen[i].pc = "special"
    /\ gen[i].cursor <= Len(gen[i].rooms)
    /\ gen'[i].cursor = gen[i].cursor + 1
    /\ Len(gen[i].rooms[gen[i].cursor].connections) = 1
    /\ gen[i].rooms[gen[i].cursor].type # "junction"

\* the outcome of the first draw of the step, taken as the treasure roll
TreasureRoll(g) == Chance(g.rng, g.config.treasureRoomChance)

\* the step made one draw, or two
OneDraw(i) == gen'[i].rng = RngAdvance(gen[i].rng)

TwoDraws(i) == gen'[i].rng = RngAdvance(RngAdvance(gen[i].rng))

\* no room is a treasure room and a shrine at once, and a room made a
\* treasure room stays one in the next state of the same generate()
TreasureStays(i) ==
    /\ MadeInto(gen[i], "treasure") \cap MadeInto(gen[i], "shrine") = {}
    /\ gen[i].pc = "special" =>
          \A k \in MadeInto(gen[i], "treasure") : k \in MadeInto(gen'[i], "treasure")

\* C22: in the special-room pass the treasure roll is made first and the
\* shrine roll is made only when the treasure roll did not succeed; a dead
\* end whose treasure roll succeeded is never turned into a shrine, and no
\* room is both treasure and shrine
FirstMatchWinsStep ==
    \A i \in DOMAIN gen :
       /\ TreasureStays(i)
       /\ VisitsDeadEnd(i) =>
            /\ OneDraw(i) \/ TwoDraws(i)
            /\ TwoDraws(i) => ~TreasureRoll(gen[i])
            /\ TreasureRoll(gen[i]) => gen[i].cursor \notin MadeInto(gen'[i], "shrine")

FirstMatchWins == [][FirstMatchWinsStep]_vars

\* C22, amended: the treasure roll is made first; the shrine roll is made
\* exactly when the treasure branch is not taken, that is when the treasure
\* roll failed or two treasure rooms exist already; the room becomes a
\* treasure room exactly when the treasure branch is taken, and a shrine
\* only after a second draw; no room is both treasure and shrine
FirstBranchWinsStep ==
    \A i \in DOMAIN gen :
       /\ TreasureStays(i)
       /\ VisitsDeadEnd(i) =>
            /\ OneDraw(i) \/ TwoDraws(i)
            /\ OneDraw(i) <=> (TreasureRoll(gen[i]) /\ gen[i].treasureRoomCount < 2)
            /\ OneDraw(i) <=> gen[i].cursor \in MadeInto(gen'[i], "treasure")
            /\ gen[i].cursor \in MadeInto(gen'[i], "shrine") =>
                  /\ TwoDraws(i)
                  /\ Chance(RngAdvance(gen[i].rng), gen[i].config.shrineRoomChance)
                  /\ gen[i].shrineRoomCount < 1

FirstBranchWins == [][FirstBranchWinsStep]_vars

\* with treasure chance 1 the pass is over: two rooms were made treasure
\* rooms and a dead end visited after them, its treasure roll bound to
\* succeed, was made the shrine
FirstBranchWinsWitness ==
    \E i \in DOMAIN gen :
       /\ gen[i].pc = "idle"
       /\ Len(returned[i]) >= 1
       /\ gen[i].config.treasureRoomChance = Always
       /\ Cardinality(MadeInto(gen[i], "treasure")) = 2
       /\ \E k \in MadeInto(gen[i], "shrine") :
            \A l \in MadeInto(gen[i], "treasure") : l < k

\* the branchingFactor roll of an iteration of the growth loop: the draw
\* after those that pick the room and the direction
BranchRoll(g) == Chance(RngAdvance(RngAdvance(g.rng)), g.config.branchingFactor)

\* the growth loop of generator i places a room in this step
PlacesRoom(i) ==
    /\ gen[i].pc = "grow"
    /\ Len(gen'[i].rooms) = Len(gen[i].rooms) + 1

PlacedType(i) == gen'[i].rooms[Len(gen'[i].rooms)].type

\* C23: a room the growth loop places while fewer than 3 rooms exist is a
\* corridor or a basic room, never a junction; a room it places later is a
\* junction exactly when the branchingFactor roll succeeds and otherwise
\* basic, corridor_ns or corridor_ew; and while the growth loop runs no
\* room has type dead_end
NoDeadEndInGrowth ==
    \A i \in DOMAIN gen :
       gen[i].pc = "grow" =>
          \A k \in 1 .. Len(gen[i].rooms) : gen[i].rooms[k].type # "dead_end"

TypePolicyStep ==
    \A i \in DOMAIN gen :
       PlacesRoom(i) =>
          /\ Len(gen[i].rooms) < 3 =>
                PlacedType(i) \in {"basic", "corridor_ns", "corridor_ew"}
          /\ Len(gen[i].rooms) >= 3 =>
                /\ PlacedType(i) = "junction" <=> BranchRoll(gen[i])
                /\ PlacedType(i) \in {"junction", "basic", "corridor_ns", "corridor_ew"}

TypePolicy == []NoDeadEndInGrowth /\ [][TypePolicyStep]_vars

\* with branchingFactor 1/2, generate() has returned: rooms 1 and 2 are
\* no junctions, and of the later rooms one is a junction and one is not
TypePolicyWitness ==
    \E i \in DOMAIN gen :
       /\ gen[i].pc = "idle"
       /\ Len(returned[i]) >= 1
       /\ gen[i].config.branchingFactor = Half
       /\ Len(gen[i].rooms) >= 5
       /\ gen[i].rooms[2].type # "junction"
       /\ gen[i].rooms[3].type # "junction"
       /\ \E k \in 4 .. Len(gen[i].rooms) : gen[i].rooms[k].type = "junction"
       /\ \E k \in 4 .. Len(gen[i].rooms) : gen[i].rooms[k].type # "junction"

\* the rooms of g in placement order carry the ids room_0, room_1, ...,
\* the id counter is their number and the occupancy map holds one occupied
\* cell per room
IdsInOrder(g) ==
    /\ \A k \in 1 .. Len(g.rooms) : g.rooms[k].id = k - 1
    /\ g.roomIdCounter = Len(g.rooms)
    /\ Cardinality({ c \in DOMAIN g.grid : g.grid[c].occupied }) = Len(g.rooms)
    /\ { g.grid[c].roomId : c \in DOMAIN g.grid } = { k - 1 : k \in 1 .. Len(g.rooms) }

\* room_0 of g is the junction at the grid origin
HubAtOrigin(g) ==
    /\ Len(g.rooms) >= 1
    /\ g.rooms[1].id = 0
    /\ g.rooms[1].gridX = 0
    /\ g.rooms[1].gridZ = 0
    /\ g.rooms[1].type = "junction"

\* C24: during and after every generate() call, the first or a repeated
\* one, room_0 exists, sits at grid (0, 0) and is a junction; the ids are
\* room_0, room_1, ... in placement order with no gap and no repeat, the
\* id counter is the number of rooms and the occupancy map has one occupied
\* cell per room; and generate() starts its frontier with room_0 alone
HubNow ==
    \A i \in DOMAIN gen :
       /\ IdsInOrder(gen[i])
       /\ (gen[i].pc # "idle" \/ Len(returned[i]) >= 1) => HubAtOrigin(gen[i])

HubStartsFrontier ==
    \A i \in DOMAIN gen :
       (gen[i].pc = "idle" /\ gen'[i].pc = "grow") =>
          /\ gen'[i].frontier = << 0 >>
          /\ Len(gen'[i].rooms) = 1

HubAndIds == []HubNow /\ [][HubStartsFrontier]_vars

\* a second generate() has returned eight rooms with treasure chance 1:
\* two rooms were reclassified and room_0 has one link, as a dead end has
HubAndIdsWitness ==
    \E i \in DOMAIN gen :
       /\ gen[i].pc = "idle"
       /\ Len(returned[i]) = 2
       /\ Len(gen[i].rooms) = 8
       /\ gen[i].treasureRoomCount = 2
       /\ Len(gen[i].rooms[1].connections) = 1
       /\ HubAtOrigin(gen[i])

\* the links of g as triples << id, direction, id of the room linked >>
Links(g) ==
    UNION { { << g.rooms[k].id, g.rooms[k].connections[j].dir,
                 g.rooms[k].connections[j].target >> :
                j \in 1 .. Len(g.rooms[k].connections) } :
            k \in 1 .. Len(g.rooms) }

\* the ids reached from the ids in seen along the links of g
RECURSIVE ReachedFrom(_, _)
ReachedFrom(g, seen) ==
    Let(seen \cup { l[3] : l \in { m \in Links(g) : m[1] \in seen } }, LAMBDA more :
      IF more = seen THEN seen ELSE ReachedFrom(g, more))

\* the cell one step from cell << x, z >> in a direction
Neighbour(x, z, dir) ==
    CASE dir = "north" -> << x, z - 1 >>
      [] dir = "south" -> << x, z + 1 >>
      [] dir = "east"  -> << x + 1, z >>
      [] dir = "west"  -> << x - 1, z >>

\* C25: the room graph is a spanning tree of grid neighbours: a link in
\* direction D joins a room to the room in the cell one unit step in D;
\* every room but room_0 is linked to exactly one room of smaller id; the
\* undirected links number one less than the rooms; every room is reached
\* from room_0; and a step that places a room links it to the room it was
\* expanded from and changes no other connection map, so rooms in adjacent
\* cells not created one from the other are not linked
SpanningTreeNow ==
    \A i \in DOMAIN gen :
       Len(gen[i].rooms) >= 1 =>
          /\ \A l \in Links(gen[i]) :
                /\ HasRoom(gen[i].rooms, l[3])
                /\ << RoomById(gen[i].rooms, l[3]).gridX, RoomById(gen[i].rooms, l[3]).gridZ >>
                     = Neighbour(RoomById(gen[i].rooms, l[1]).gridX,
                                 RoomById(gen[i].rooms, l[1]).gridZ, l[2])
          /\ \A k \in 2 .. Len(gen[i].rooms) :
                Cardinality({ l \in Links(gen[i]) :
                                l[1] = gen[i].rooms[k].id /\ l[3] < l[1] }) = 1
          /\ Cardinality({ {l[1], l[3]} : l \in Links(gen[i]) }) = Len(gen[i].rooms) - 1
          /\ ReachedFrom(gen[i], {0}) = { gen[i].rooms[k].id : k \in 1 .. Len(gen[i].rooms) }

LinksOnlyToParent ==
    \A i \in DOMAIN gen :
       PlacesRoom(i) =>
          /\ \A l \in Links(gen'[i]) \ Links(gen[i]) :
                {l[1], l[3]} = {PickedRoom(gen[i]).id, Len(gen[i].rooms)}
          /\ Cardinality(Links(gen'[i]) \ Links(gen[i])) = 2
          /\ Links(gen[i]) \subseteq Links(gen'[i])

SpanningTree == []SpanningTreeNow /\ [][LinksOnlyToParent]_vars

\* generate() has returned eight rooms; two of them lie in adjacent cells
\* and are not linked
SpanningTreeWitness ==
    \E i \in DOMAIN gen :
       /\ gen[i].pc = "idle"
       /\ Len(returned[i]) >= 1
       /\ Len(gen[i].rooms) = 8
       /\ \E k \in 1 .. 8 : \E l \in 1 .. 8 : \E dir \in Directions :
            /\ << gen[i].rooms[l].gridX, gen[i].rooms[l].gridZ >>
                 = Neighbour(gen[i].rooms[k].gridX, gen[i].rooms[k].gridZ, dir)
            /\ \A m \in Links(gen[i]) :
                 ~(m[1] = gen[i].rooms[k].id /\ m[3] = gen[i].rooms[l].id)

\* C26: the target is drawn once per generate() call, by the first draw of
\* the call and before a room is placed, and does not change during the
\* call; with minRooms <= maxRooms it lies in minRooms .. maxRooms, and the
\* generator never holds more than maxRooms rooms
TargetInBounds ==
    \A i \in DOMAIN gen :
       /\ (gen[i].pc # "idle" \/ Len(returned[i]) >= 1) =>
             /\ gen[i].targetRoomCount >= gen[i].config.minRooms
             /\ gen[i].targetRoomCount <= gen[i].config.maxRooms
       /\ Len(gen[i].rooms) <= gen[i].config.maxRooms
       /\ \A n \in 1 .. Len(returned[i]) :
             Cardinality(returned[i][n]) <= gen[i].config.maxRooms

TargetDrawnOnce ==
    \A i \in DOMAIN gen :
       /\ (gen[i].pc = "idle" /\ gen'[i].pc # "idle") =>
             /\ gen'[i].targetRoomCount =
                  NextInt(gen[i].rng, gen[i].config.minRooms, gen[i].config.maxRooms + 1)
             /\ Len(gen'[i].rooms) = 1
       /\ gen[i].pc # "idle" => gen'[i].targetRoomCount = gen[i].targetRoomCount

TargetBounds == []TargetInBounds /\ [][TargetDrawnOnce]_vars

\* a generator with minRooms 7 and maxRooms 8 has returned twice: 8 rooms
\* from one call, 7 from the other
TargetBoundsWitness ==
    \E i \in DOMAIN gen :
       /\ gen[i].pc = "idle"
       /\ gen[i].config.minRooms = 7
       /\ gen[i].config.maxRooms = 8
       /\ Len(returned[i]) = 2
       /\ { Cardinality(returned[i][1]), Cardinality(returned[i][2]) } = {7, 8}

\* the volumes of a group as a set, without the material of their meshes
Volumes(group) ==
    { [type |-> group.children[k].type, x |-> group.children[k].x,
       z |-> group.children[k].z, width |-> group.children[k].width,
       depth |-> group.children[k].depth] : k \in 1 .. Len(group.children) }

\* the stretch a wall covers along a side: << from, to >>
Stretch(wall, side) ==
    IF side \in {"north", "south"}
      THEN << wall.x - wall.width \div 2, wall.x + wall.width \div 2 >>
      ELSE << wall.z - wall.depth \div 2, wall.z + wall.depth \div 2 >>

\* the walls of a 2x2 room that stand on a side, the corner pillars left out
SideWalls(group, side) ==
    { v \in Volumes(group) :
        /\ v.type = "wall"
        /\ CASE side = "north" -> v.z = 0 /\ v.x \notin {0, 2 * TILE_SIZE}
             [] side = "south" -> v.z = 2 * TILE_SIZE /\ v.x \notin {0, 2 * TILE_SIZE}
             [] side = "west"  -> v.x = 0 /\ v.z \notin {0, 2 * TILE_SIZE}
             [] side = "east"  -> v.x = 2 * TILE_SIZE /\ v.z \notin {0, 2 * TILE_SIZE} }

\* C27: createDeadEndRoom with entrance E and any variant returns a group
\* whose connection map has a point on side E and on no other side, whose
\* wall on side E is two segments with a gap between them around the
\* connection point, and which has one wall of full length on each other
\* side; the dimensions are 2 x 2 and the wall and floor volumes are those
\* of the two other variants
DeadEndShape ==
    ( /\ lastCall # None
      /\ lastCall[1].op = "createDeadEndRoom"
      /\ ~lastCall[1].result.threw )
    => \A E \in { lastCall[1].options[1].entrance } :
       \A group \in { lastCall[1].result.group[1] } :
          /\ DOMAIN group.userData.connections = {E}
          /\ group.userData.dimensions = [width |-> 2, depth |-> 2, height |-> 1]
          /\ Cardinality(SideWalls(group, E)) = 2
          /\ \E a \in SideWalls(group, E) : \E b \in SideWalls(group, E) :
                /\ Stretch(a, E)[1] = 0
                /\ Stretch(a, E)[2] < TILE_SIZE
                /\ Stretch(b, E)[1] > TILE_SIZE
                /\ Stretch(b, E)[2] = 2 * TILE_SIZE
          /\ \A side \in Directions \ {E} :
                /\ Cardinality(SideWalls(group, side)) = 1
                /\ \A w \in SideWalls(group, side) :
                      Stretch(w, side) = << 0, 2 * TILE_SIZE >>
          /\ \A v \in Variants :
                Volumes(group) = Volumes(createDeadEndRoom(E, v))

\* a shrine with its entrance to the west was constructed
DeadEndShapeWitness ==
    /\ lastCall # None
    /\ lastCall[1].op = "createDeadEndRoom"
    /\ ~lastCall[1].result.threw
    /\ lastCall[1].options[1] = [entrance |-> "west", variant |-> "shrine"]
    /\ lastCall[1].result.group[1].userData.roomType = "shrine"

\* the margin PlayerController.canMoveInDungeon passes as radius, 0.2
MovementRadius == Fixed(20)

\* C28: after generate() and buildAllRooms, checkCollision at the x and z
\* of the spawn point returned, with the movement radius 0.2, finds no
\* collision with any volume registered in the room manager
SpawnPointFree ==
    ( spawnPoint # None /\ spawnPoint[1].calls >= 1 ) =>
       ~checkCollision(collisionBoxes, spawnPoint[1].point.x, spawnPoint[1].point.z,
                       MovementRadius)

\* buildAllRooms has run after a generate() that gave the hub a neighbour
\* on each of its four sides; the walls of all rooms are registered
SpawnPointFreeWitness ==
    /\ spawnPoint # None
    /\ spawnPoint[1].calls >= 1
    /\ Len(gen[spawnPoint[1].by].rooms[1].connections) = 4
    /\ Len(mgrRooms) = Len(gen[spawnPoint[1].by].rooms)
    /\ Len(collisionBoxes) > 13
    /\ \E k \in 1 .. Len(collisionBoxes) :
          checkCollision(<< collisionBoxes[k] >>, TILE_SIZE + TILE_SIZE \div 2,
                         TILE_SIZE + TILE_SIZE \div 2, MovementRadius)

\* the names the shape constructors give the groups of a room type
ShapeNames(type) ==
    CASE type = "junction"    -> {"Junction_3x3"}
      [] type = "corridor_ns" -> {"Corridor_NS"}
      [] type = "corridor_ew" -> {"Corridor_EW"}
      [] type = "basic"       -> {"BasicRoom_2x2"}
      [] type = "dead_end"    ->
           { "DeadEnd_" \o e \o "_" \o v : e \in Directions, v \in {"treasure", "shrine"} }

\* room has geometry of the shape of its type, tagged with its id and cell
\* and positioned for it; a dead end has its entrance on the side of its
\* single link and carries a variant
GeometryFits(room) ==
    /\ room.group # None
    /\ room.group[1].name \in ShapeNames(room.type)
    /\ room.group[1].userData.roomId = room.id
    /\ room.group[1].userData.gridX = room.gridX
    /\ room.group[1].userData.gridZ = room.gridZ
    /\ room.type = "dead_end" =>
          /\ Len(room.connections) = 1
          /\ DOMAIN room.group[1].userData.connections = { room.connections[1].dir }
          /\ "roomType" \in DOMAIN room.group[1].userData
          /\ room.group[1].userData.roomType \in {"treasure", "shrine"}
          /\ room.group[1].name = "DeadEnd_" \o room.connections[1].dir \o "_"
                                     \o room.group[1].userData.roomType

\* C29: once the special-room pass is over, and so when generate() returns,
\* every placed room has geometry built for its final type and tagged with
\* its id and grid cell, and the dead_end rooms number treasure count plus
\* shrine count; a step that reclassifies a room rebuilds its geometry with
\* the variant rolled and the entrance on the side of the room's link
GeometryFitsAtReturn ==
    \A i \in DOMAIN gen :
       (gen[i].pc = "idle" /\ Len(returned[i]) >= 1) =>
          /\ \A k \in 1 .. Len(gen[i].rooms) : GeometryFits(gen[i].rooms[k])
          /\ Cardinality({ k \in 1 .. Len(gen[i].rooms) : gen[i].rooms[k].type = "dead_end" })
               = gen[i].treasureRoomCount + gen[i].shrineRoomCount

RebuiltWithVariant ==
    \A i \in DOMAIN gen :
       VisitsDeadEnd(i) =>
          \A k \in { gen[i].cursor } :
             gen'[i].rooms[k].type = "dead_end" =>
                /\ GeometryFits(gen'[i].rooms[k])
                /\ gen'[i].rooms[k].group[1].userData.roomType =
                      IF OneDraw(i) THEN "treasure" ELSE "shrine"
                /\ gen'[i].rooms[k].group # gen[i].rooms[k].group

WorldPosition ==
    /\ \A i \in DOMAIN gen :
          \A k \in 1 .. Len(gen[i].rooms) :
             /\ gen[i].rooms[k].worldX = gen[i].rooms[k].gridX * 3 * TILE_SIZE
             /\ gen[i].rooms[k].worldZ = gen[i].rooms[k].gridZ * 3 * TILE_SIZE
             /\ gen[i].rooms[k].group # None =>
                  gen[i].rooms[k].group[1].position =
                     [x |-> gen[i].rooms[k].worldX, z |-> gen[i].rooms[k].worldZ]
    /\ \A n \in 1 .. Len(mgrRooms) :
          /\ mgrRooms[n].group.position.x
               = mgrRooms[n].group.userData.gridX * 3 * TILE_SIZE
          /\ mgrRooms[n].group.position.z
               = mgrRooms[n].group.userData.gridZ * 3 * TILE_SIZE

\* eight rooms are placed and built into the manager: a corridor lies west
\* of the origin and a reclassified dead end south of it
WorldPositionWitness ==
    \E i \in DOMAIN gen :
       /\ Len(gen[i].rooms) = 8
       /\ Len(mgrRooms) = 8
       /\ \E k \in 1 .. 8 :
            /\ gen[i].rooms[k].type \in {"corridor_ns", "corridor_ew"}
            /\ gen[i].rooms[k].gridX < 0
            /\ gen[i].rooms[k].group[1].position.x < 0
       /\ \E k \in 1 .. 8 :
            /\ gen[i].rooms[k].type = "dead_end"
            /\ gen[i].rooms[k].gridZ > 0
            /\ gen[i].rooms[k].group[1].position.z > 0
====
